---- MODULE Spec2Model ----
(***************************************************************************)
(* openchat-backend: the join-ticket authority (internal/rtc/token_service *)
(* .go) and the signaling fabric (rtc signaling service: wsClient and      *)
(* roomHub).                                                               *)
(*                                                                         *)
(* Three state machines share this module.                                 *)
(*   SpecTicket  - TokenService.Issue / ParseAndConsume called by          *)
(*                 concurrent goroutines, with the wall clock advancing.   *)
(*   SpecSignal  - three websocket connections (a read goroutine and a     *)
(*                 write goroutine each) over one roomHub and one          *)
(*                 TokenService; connection A has joined, B and C connect. *)
(*   SpecSignalFair - two connections, with the read deadline and the      *)
(*                 fairness the Go scheduler gives to runnable goroutines. *)
(* The chat service's server directory (SpecDirectory) and the chat        *)
(* realtime hub (SpecHub) are modelled next to them.                        *)
(***************************************************************************)
EXTENDS Integers, Sequences, FiniteSets, TLC

VARIABLES
    clock,      \* time.Now().UTC().Unix(), in seconds
    issued,     \* sequence of the ticket strings Issue has returned
    usedJTIs,   \* TokenService.usedJTIs: jti -> expires_at (tracked tickets)
    usedBulk,   \* number of further usedJTIs entries (tickets not tracked one by one)
    tpc,        \* per caller goroutine: position inside ParseAndConsume
    tcall,      \* per caller goroutine: the call's ticket and the `now` it read
    lastIssue,  \* history: the latest Issue call or join-ticket request, its input
                \* and what it returned
    log,        \* history: the ParseAndConsume calls that returned, in order
    rooms,      \* roomHub.rooms: channel id -> ids of the clients in the room
    rpc,        \* per connection: position of the read goroutine (readPump)
    retTo,      \* per connection: where closeConnection returns to
    once,       \* per connection: closeOnce has run (sync.Once is done)
    wpc,        \* per connection: position of the write goroutine (writePump)
    send,       \* per connection: wsClient.send, the buffered channel
    chClosed,   \* per connection: c.closed and c.send are closed, conn.Close() done
    participant,\* per connection: wsClient.participant
    existing,   \* per connection: what roomHub.register returned to waitForJoin
    joinReq,    \* per connection: request_id of the rtc.join envelope
    idle,       \* per connection: time has passed since the read deadline was armed
    frames,     \* number of inbound envelopes dispatched by handleEnvelope
    joinRes,    \* history, per connection: how waitForJoin ended
    everReg,    \* history, per connection: roomHub.register inserted it
    atInsert,   \* history, per connection: members of its room when it was inserted
    closeRuns,  \* history, per connection: runs of the body of closeOnce.Do
    leftEnq,    \* history: leftEnq[r][p] = rtc.participant.left about p enqueued to r
    panicked,   \* history, per connection: a send on the closed c.send panicked
    lastIn,     \* history: the inbound envelope dispatched last, by whom, and the
                \* connections whose queue was full when it was dispatched
    leftServersByUser,  \* chat.Service.leftServersByUser: user uid -> server ids left
    leaves,             \* history: the LeaveServer calls that returned, in order
    clientsByID,        \* realtime.Hub.clientsByID: the ids of the registered clients
    subscribersByRoom,  \* realtime.Hub.subscribersByRoom: channel id -> client ids
    subscriptions,      \* per chat client: client.subscriptions
    hpc,                \* per chat client: position of its read goroutine (readLoop)
    hsend,              \* per chat client: client.send, the buffered channel
    hpending,           \* per chat client: envelopes its handler has yet to enqueue
    hframes             \* number of inbound envelopes dispatched by the chat clients

tvars == <<clock, issued, usedJTIs, usedBulk, tpc, tcall, lastIssue, log>>

svars == <<rooms, rpc, retTo, once, wpc, send, chClosed, participant, existing, joinReq,
           idle, frames, joinRes, everReg, atInsert, closeRuns, leftEnq, panicked,
           lastIn>>

cvars == <<leftServersByUser, leaves, clientsByID, subscribersByRoom, subscriptions, hpc,
           hsend, hpending, hframes>>

vars == <<clock, issued, usedJTIs, usedBulk, tpc, tcall, lastIssue, log,
          rooms, rpc, retTo, once, wpc, send, chClosed, participant, existing, joinReq,
          idle, frames, joinRes, everReg, atInsert, closeRuns, leftEnq, panicked,
          lastIn,
          leftServersByUser, leaves, clientsByID, subscribersByRoom, subscriptions, hpc,
          hsend, hpending, hframes>>

-----------------------------------------------------------------------------
(* Bounds of the model *)

TTL == 1            \* TokenService.ttl in seconds (OPENCHAT_JOIN_TICKET_TTL_SECONDS)
MaxClock == TTL + 1 \* the clock stops advancing here
MaxTickets == 2     \* tickets issued one by one
MaxCalls == 3       \* ParseAndConsume calls that return

(* Program constants *)

GcThreshold == 5000 \* gcUsedJTIs compacts from this size on

Callers == {"g1", "g2"}

Secret == "unit-test-secret"

-----------------------------------------------------------------------------
(* Values *)

Permissions(speak, video, screenshare) ==
    [speak |-> speak, video |-> video, screenshare |-> screenshare]

PermAll == Permissions(TRUE, TRUE, TRUE)
PermSpeakVideo == Permissions(TRUE, TRUE, FALSE)
PermSpeakOnly == Permissions(TRUE, FALSE, FALSE)
PermNone == Permissions(FALSE, FALSE, FALSE)

\* strings.TrimSpace on the strings the model uses
TrimSpace(s) ==
    CASE s = " " -> ""
      [] s = " vc_general " -> "vc_general"
      [] s = " video_camera " -> "video_camera"
      [] s = " uid_a " -> "uid_a"
      [] s = " srv_testlab " -> "srv_testlab"
      [] s = " ch_general " -> "ch_general"
      [] OTHER -> s

\* encoding/json writes a Go string as JSON text: bytes that are not valid
\* UTF-8 are replaced by U+FFFD, so they do not survive Marshal + Unmarshal.
JsonString(s) ==
    CASE s = "uid_\\xff" -> "uid_\\ufffd"
      [] OTHER -> s

\* json.Marshal(claims) followed by base64.RawURLEncoding: the payload segment.
\* ok = the segment is base64url of a JSON object.
EncodePayload(claims) ==
    [ok |-> TRUE,
     c  |-> [server_id   |-> JsonString(claims.server_id),
             channel_id  |-> JsonString(claims.channel_id),
             user_uid    |-> JsonString(claims.user_uid),
             device_id   |-> JsonString(claims.device_id),
             permissions |-> claims.permissions,
             exp         |-> claims.exp,
             iat         |-> claims.iat,
             jti         |-> claims.jti]]

\* TokenService.sign: HMAC-SHA256 of the payload segment under a key.  Two MACs
\* are equal exactly when key and message are equal.
SignWith(key, payloadEncoded) == [key |-> key, over |-> payloadEncoded]

sign(payloadEncoded) == SignWith(Secret, payloadEncoded)

\* base64.RawURLEncoding.EncodeToString of a MAC: the signature segment.  The
\* 32 bytes of a MAC fill 43 characters, and the last character carries two
\* bits that belong to no byte: the encoder writes them as zero.
\* ok = the segment is valid base64url.
EncodeSignature(mac) == [ok |-> TRUE, mac |-> mac, pad |-> 0]

\* base64.RawURLEncoding.DecodeString of the signature segment: the encoding is
\* not Strict(), so the spare bits of the last character are discarded
DecodeSignature(segment) == [ok |-> segment.ok, mac |-> segment.mac]

\* A ticket string is the sequence of its "."-separated segments.
TicketString(claims) ==
    <<EncodePayload(claims), EncodeSignature(sign(EncodePayload(claims)))>>

NoClaims ==
    [server_id |-> "", channel_id |-> "", user_uid |-> "", device_id |-> "",
     permissions |-> PermNone, exp |-> 0, iat |-> 0, jti |-> 0]

-----------------------------------------------------------------------------
(* TokenService.Issue *)

IssueInputs ==
    [ServerID    : {"srv_local", " "},
     ChannelID   : {"vc_general", ""},
     UserUID     : {"uid_a"},
     DeviceID    : {"dev_a"},
     Permissions : {PermSpeakVideo}]

\* what is known of the latest Issue call: its input and the ticket, claims
\* and error it returned
NoIssue == [res |-> "none", input |-> <<>>, ticket |-> <<>>, claims |-> NoClaims]

IssueFailed(input) ==
    [res |-> "invalid_input", input |-> input, ticket |-> <<>>, claims |-> NoClaims]

IssueReturned(input, claims) ==
    [res |-> "ok", input |-> input, ticket |-> TicketString(claims), claims |-> claims]

\* (mutant) the ids are compared with "" as they are
IssueRefusedUntrimmed(input) ==
    input.ServerID = "" \/ input.ChannelID = ""

\* line 47: the input is refused
IssueRefused(input) ==
    TrimSpace(input.ServerID) = "" \/ TrimSpace(input.ChannelID) = ""

\* lines 50-60: the claims of a new ticket; jti is a fresh UUID
IssueClaims(input, now, jti) ==
    [server_id   |-> input.ServerID,
     channel_id  |-> input.ChannelID,
     user_uid    |-> input.UserUID,
     device_id   |-> input.DeviceID,
     permissions |-> input.Permissions,
     exp         |-> now + TTL,
     iat         |-> now,
     jti         |-> jti]

\* uuid.NewString(): a value no earlier ticket carries
FreshJTI == Len(issued) + 1

Issue(input) ==
    /\ Len(issued) < MaxTickets
    /\ IF IssueRefused(input)
       THEN /\ lastIssue' = IssueFailed(input)
            /\ UNCHANGED issued
       ELSE LET claims == IssueClaims(input, clock, FreshJTI) IN
            /\ issued' = Append(issued, [ticket |-> TicketString(claims), claims |-> claims])
            /\ lastIssue' = IssueReturned(input, claims)
    /\ UNCHANGED <<clock, usedJTIs, usedBulk, tpc, tcall, log>>
    /\ UNCHANGED <<svars, cvars>>

-----------------------------------------------------------------------------
(* TokenService.ParseAndConsume *)

\* lines 73-98: the segments are split, the signature is decoded and compared
\* with the MAC of the payload segment, the payload is decoded and parsed.
TicketWellFormed(ticket) ==
    /\ Len(ticket) = 2
    /\ DecodeSignature(ticket[2]).ok
    /\ DecodeSignature(ticket[2]).mac = sign(ticket[1])
    /\ ticket[1].ok

\* (mutant) a ticket is still accepted at now = expires_at
ExpiredStrictlyAfter(expiresAt, now) == expiresAt < now

\* line 101
Expired(expiresAt, now) == expiresAt <= now

\* Entries of usedJTIs that are not tracked one by one all belong to tickets
\* issued and consumed at time 0: they expire at BulkExpiresAt.
BulkExpiresAt == TTL

UsedSize(m, bulk) == Cardinality(DOMAIN m) + bulk

\* (mutant) compaction runs at every size
gcUsedJTIsAnySize(m, bulk, nowUnix) ==
    [j \in {x \in DOMAIN m : ~(m[x] <= nowUnix)} |-> m[j]]

\* (mutant) compaction drops every entry, expired or not
gcUsedJTIsDropAll(m, bulk, nowUnix) ==
    IF UsedSize(m, bulk) < GcThreshold THEN m ELSE <<>>

\* lines 122-131, on the tracked entries
gcUsedJTIs(m, bulk, nowUnix) ==
    IF UsedSize(m, bulk) < GcThreshold
    THEN m
    ELSE [j \in {x \in DOMAIN m : ~(m[x] <= nowUnix)} |-> m[j]]

\* lines 122-131, on the entries counted in bulk
gcUsedBulk(m, bulk, nowUnix) ==
    IF UsedSize(m, bulk) < GcThreshold
    THEN bulk
    ELSE IF BulkExpiresAt <= nowUnix THEN 0 ELSE bulk

NoCall == [ticket |-> <<>>, now |-> 0]

\* What the history keeps of a call that returned: the jti written in the
\* payload segment presented (0 when there is none), whether the string passed
\* lines 73-98, whether it is a string Issue returned, the `now` of line 100,
\* the time of the return, and the result.
SegmentJTI(ticket) == IF Len(ticket) >= 1 /\ ticket[1].ok THEN ticket[1].c.jti ELSE 0

Returned(ticket, now, res, claims) ==
    [jti |-> SegmentJTI(ticket), wellformed |-> TicketWellFormed(ticket),
     genuine |-> \E i \in DOMAIN issued : issued[i].ticket = ticket,
     now |-> now, at |-> clock, res |-> res, claims |-> claims]

InFlight == Cardinality({k \in Callers : tpc[k] = "lock"})

\* lines 72-103: everything before the mutex.  A call that fails here returns;
\* a call that passes has read `now` and proceeds to usedMutex.Lock().
PCCheck(k, ticket) ==
    /\ tpc[k] = "idle"
    /\ Len(log) + InFlight < MaxCalls
    /\ IF ~TicketWellFormed(ticket)
       THEN /\ log' = Append(log, Returned(ticket, clock, "invalid_ticket", NoClaims))
            /\ UNCHANGED <<tpc, tcall>>
       ELSE IF Expired(ticket[1].c.exp, clock)
       THEN /\ log' = Append(log, Returned(ticket, clock, "expired_ticket", NoClaims))
            /\ UNCHANGED <<tpc, tcall>>
       ELSE /\ tpc' = [tpc EXCEPT ![k] = "lock"]
            /\ tcall' = [tcall EXCEPT ![k] = [ticket |-> ticket, now |-> clock]]
            /\ UNCHANGED log
    /\ UNCHANGED <<clock, issued, usedJTIs, usedBulk, lastIssue>>
    /\ UNCHANGED <<svars, cvars>>

\* lines 107-111: the map the locked section leaves, for claims read at `now`
ConsumeMap(m, bulk, claims, now) ==
    LET g == gcUsedJTIs(m, bulk, now) IN
    IF claims.jti \in DOMAIN g
    THEN g
    ELSE [j \in DOMAIN g \cup {claims.jti} |-> IF j = claims.jti THEN claims.exp ELSE g[j]]

\* (mutant) the locked section inserts the jti and reports a replay
ConsumeResultReplay(m, bulk, claims, now) == "replay_ticket"

\* lines 107-113: the result of the locked section
ConsumeResult(m, bulk, claims, now) ==
    IF claims.jti \in DOMAIN gcUsedJTIs(m, bulk, now) THEN "replay_ticket" ELSE "ok"

\* lines 105-113: the section under usedMutex
PCLocked(k) ==
    /\ tpc[k] = "lock"
    /\ LET claims == tcall[k].ticket[1].c
           now    == tcall[k].now
           res    == ConsumeResult(usedJTIs, usedBulk, claims, now)
       IN  /\ usedJTIs' = ConsumeMap(usedJTIs, usedBulk, claims, now)
           /\ usedBulk' = gcUsedBulk(usedJTIs, usedBulk, now)
           /\ log' = Append(log, Returned(tcall[k].ticket, now, res,
                                          IF res = "ok" THEN claims ELSE NoClaims))
    /\ tpc' = [tpc EXCEPT ![k] = "idle"]
    /\ tcall' = [tcall EXCEPT ![k] = NoCall]
    /\ UNCHANGED <<clock, issued, lastIssue>>
    /\ UNCHANGED <<svars, cvars>>

\* time passes
Tick ==
    /\ clock < MaxClock
    /\ clock' = clock + 1
    /\ UNCHANGED <<issued, usedJTIs, usedBulk, tpc, tcall, lastIssue, log>>
    /\ UNCHANGED <<svars, cvars>>

\* The strings a client can present: a ticket it was given, that ticket with a
\* segment changed, or something that is no ticket.
Tampered(ticket) ==
    { <<[ticket[1] EXCEPT !.c.exp = @ + 1], ticket[2]>>,
      <<ticket[1], EncodeSignature(SignWith("other-secret", ticket[1]))>>,
      <<ticket[1], [ticket[2] EXCEPT !.ok = FALSE]>>,
      <<ticket[1]>> }

\* An issued ticket whose last signature character is replaced by one that
\* differs from it in the spare bits only
Respelled(ticket) == <<ticket[1], [ticket[2] EXCEPT !.pad = 1]>>

\* What any caller of Issue can pass: strings are byte strings, which need not
\* be valid UTF-8 (a header value, a path segment)
AnyIssueInputs ==
    [ServerID    : {"srv_local", " "},
     ChannelID   : {"vc_general", ""},
     UserUID     : {"uid_a", "uid_\\xff"},
     DeviceID    : {"dev_a"},
     Permissions : {PermSpeakVideo}]

Presentable ==
    UNION { {issued[i].ticket} \cup Tampered(issued[i].ticket) : i \in DOMAIN issued }

AnyPresentable ==
    Presentable \cup { Respelled(issued[i].ticket) : i \in DOMAIN issued }
-----------------------------------------------------------------------------
(* Signaling fabric: values *)

MaxFrames == 1      \* socket events after the first frames: envelopes read, read
                    \* errors, envelopes written

QueueCap == 64      \* make(chan Envelope, 64)

\* wsClient.id of each connection (uuid.NewString(): pairwise distinct)
Conns == {"A", "B", "C"}

\* the connection whose socket is slow or failing: its writes can fail, and
\* its peer can send a burst of pings that nothing drains
BadSocket == {"B"}

NoInbound ==
    [from |-> "", seq |-> 0, full |-> {},
     env |-> [type |-> "", request_id |-> "", channel_id |-> "",
              payload |-> [object |-> FALSE, fields |-> <<>>]]]

NoParticipant ==
    [ParticipantID |-> "", ChannelID |-> "", UserUID |-> "", DeviceID |-> "",
     Permissions |-> PermNone, JoinedAt |-> 0]

\* payload[k] = v on a map[string]any
Overlay(payload, k, v) ==
    [x \in DOMAIN payload \cup {k} |-> IF x = k THEN v ELSE payload[x]]

\* payload[k].(string), then strings.TrimSpace: "" when the key is absent
StringField(payload, k) == IF k \in DOMAIN payload THEN TrimSpace(payload[k]) ELSE ""

\* json.Unmarshal(envelope.Payload, &payload) into a map: a payload that is
\* absent or is no JSON object leaves the empty map
DecodeObject(raw) == IF raw.object THEN raw.fields ELSE <<>>

RawObject(fields) == [object |-> TRUE, fields |-> fields]
RawMalformed == [object |-> FALSE, fields |-> <<>>]

\* types.go NewEnvelope
NewEnvelope(eventType, channelID, requestID, payload) ==
    [type |-> eventType, request_id |-> requestID, channel_id |-> channelID,
     payload |-> payload]

\* an envelope as a client sends it
Inbound(eventType, requestID, raw) ==
    [type |-> eventType, request_id |-> requestID, channel_id |-> "vc_spoofed",
     payload |-> raw]

participantSummaryFromParticipant(p) ==
    [participant_id |-> p.ParticipantID, channel_id |-> p.ChannelID,
     user_uid |-> p.UserUID, device_id |-> p.DeviceID,
     permissions |-> p.Permissions, joined_at |-> p.JoinedAt]

\* the summaries of a collection of clients (the order of the list is the
\* iteration order of a Go map, so it is kept as a set)
participantsToSummaries(ids) ==
    {participantSummaryFromParticipant(participant[p]) : p \in ids}

ErrorEnvelope(c, requestID, code, message, retryable) ==
    NewEnvelope("rtc.error", participant[c].ChannelID, requestID,
                [code |-> code, message |-> message, retryable |-> retryable])

\* (mutant) the joiner is sent the announcement its peers get
JoinedEnvelopeAsAnnounced(c) ==
    NewEnvelope("rtc.participant.joined", participant[c].ChannelID, "",
                [participant |-> participantSummaryFromParticipant(participant[c])])

\* waitForJoin lines 130-136
JoinedEnvelope(c) ==
    NewEnvelope("rtc.joined", participant[c].ChannelID, joinReq[c],
                [participant_id |-> participant[c].ParticipantID,
                 channel_id     |-> participant[c].ChannelID,
                 participants   |-> participantsToSummaries(existing[c]),
                 joined_at      |-> participant[c].JoinedAt])

ParticipantJoinedEnvelope(c) ==
    NewEnvelope("rtc.participant.joined", participant[c].ChannelID, "",
                [participant |-> participantSummaryFromParticipant(participant[c])])

ParticipantLeftEnvelope(c) ==
    NewEnvelope("rtc.participant.left", participant[c].ChannelID, "",
                [participant |-> [participant_id |-> participant[c].ParticipantID,
                                  user_uid       |-> participant[c].UserUID]])

PongEnvelope(c, requestID) ==
    NewEnvelope("rtc.pong", participant[c].ChannelID, requestID, [ts |-> clock])

-----------------------------------------------------------------------------
(* wsClient.enqueue and the room registry *)

\* (mutant) a stack instead of a queue: the envelope is put in front
enqueueAtHead(q, envelope) == IF Len(q) < QueueCap THEN <<envelope>> \o q ELSE q

\* (mutant) a channel without a capacity: the envelope is always appended
enqueueUnbounded(q, envelope) == Append(q, envelope)

\* (mutant) a plain channel send: it waits while the buffer is full
EnqueueWaits(q) == Len(q) < QueueCap

\* lines 251-255: a select with a default case never waits
EnqueueReady(q) == TRUE

\* lines 251-255: the envelope is appended, or dropped when the buffer is full
enqueue(q, envelope) == IF Len(q) < QueueCap THEN Append(q, envelope) ELSE q

\* h.rooms[channelID], nil when the room does not exist
Room(channelID) == IF channelID \in DOMAIN rooms THEN rooms[channelID] ELSE {}

\* (mutant) the snapshot is taken after the insertion
registerExistingAfterInsert(channelID, c) == Room(channelID) \cup {c}

\* lines 321-329: what register returns, the peers found in the room
registerExisting(channelID, c) == Room(channelID)

\* lines 321-330: the registry after register
registerRooms(channelID, c) ==
    [ch \in DOMAIN rooms \cup {channelID} |->
        IF ch = channelID THEN Room(channelID) \cup {c} ELSE rooms[ch]]

\* (mutant) unregister deletes the room with everybody in it
unregisterDropsRoom(channelID, participantID) ==
    [ch \in DOMAIN rooms \ {channelID} |-> rooms[ch]]

\* (mutant) unregister leaves the registry as it is
unregisterNothing(channelID, participantID) == rooms

\* (mutant) unregister without the deletion of the emptied room
unregisterKeepsRoom(channelID, participantID) ==
    IF channelID \notin DOMAIN rooms
    THEN rooms
    ELSE [rooms EXCEPT ![channelID] = @ \ {participantID}]

\* lines 337-344: the registry after unregister
unregisterRooms(channelID, participantID) ==
    IF channelID \notin DOMAIN rooms
    THEN rooms
    ELSE IF rooms[channelID] \ {participantID} = {}
         THEN [ch \in DOMAIN rooms \ {channelID} |-> rooms[ch]]
         ELSE [rooms EXCEPT ![channelID] = @ \ {participantID}]

\* (mutant) the envelope goes to the members of every room
broadcastTargetsEveryRoom(channelID, exceptParticipantID) ==
    UNION {rooms[ch] : ch \in DOMAIN rooms} \ {exceptParticipantID}

\* (mutant) broadcast without its exception
broadcastTargetsAll(channelID, exceptParticipantID) == Room(channelID)

\* lines 350-356: the clients broadcast enqueues to
broadcastTargets(channelID, exceptParticipantID) ==
    {p \in Room(channelID) : ~(exceptParticipantID # "" /\ p = exceptParticipantID)}

\* (mutant) the target is looked up in every room
sendToParticipantAnyRoom(channelID, participantID) ==
    {p \in UNION {rooms[ch] : ch \in DOMAIN rooms} : p = participantID}

\* lines 362-371: the client sendToParticipant enqueues to (none: it returns false)
sendToParticipantTargets(channelID, participantID) ==
    {p \in Room(channelID) : p = participantID}

\* the channels after `envelope` was enqueued to each of `targets`
Enqueued(targets, envelope) ==
    [r \in Conns |-> IF r \in targets THEN enqueue(send[r], envelope) ELSE send[r]]

-----------------------------------------------------------------------------
(* wsClient: the read goroutine *)

tstatic == <<clock, issued, tpc, tcall, lastIssue, log>>

\* (mutant) no sync.Once: every call of closeConnection runs the cleanup
OnceNever(c) == FALSE

\* closeOnce.Do(f) runs f unless it has run (line 284)
OnceDone(c) == once[c]

\* (mutant) closeConnection without unregister and broadcast
CloseEntrySkipsCleanup(c, ret) == IF OnceDone(c) THEN ret ELSE "closeChans"

\* A call of closeConnection by the read goroutine, which continues at `ret`
\* afterwards: the position the call leads to (lines 284-285).
CloseEntry(c, ret) ==
    IF OnceDone(c) THEN ret
    ELSE IF participant[c].ChannelID # "" THEN "unregister" ELSE "closeChans"

CallClose(c, ret) ==
    /\ rpc' = [rpc EXCEPT ![c] = CloseEntry(c, ret)]
    /\ retTo' = [retTo EXCEPT ![c] = ret]
    /\ once' = [once EXCEPT ![c] = TRUE]
    /\ closeRuns' = [closeRuns EXCEPT ![c] = IF OnceDone(c) THEN @ ELSE @ + 1]

\* The read goroutine enqueues `envelope` to each of `targets` and goes on at
\* `next`.  A send on a closed channel panics: the goroutine unwinds through
\* the deferred closeConnection of readPump (line 68) and ends.
Emit(c, targets, envelope, next) ==
    /\ \A t \in targets : EnqueueReady(send[t])
    /\ IF \E t \in targets : chClosed[t]
       THEN /\ panicked' = [panicked EXCEPT ![c] = TRUE]
            /\ send' = send
            /\ CallClose(c, "exit")
       ELSE /\ send' = Enqueued(targets, envelope)
            /\ rpc' = [rpc EXCEPT ![c] = next]
            /\ UNCHANGED <<panicked, retTo, once, closeRuns>>

\* TokenService.ParseAndConsume as one call made at the current time
ParseAndConsumeResult(ticket) ==
    IF ~TicketWellFormed(ticket) THEN "invalid_ticket"
    ELSE IF Expired(ticket[1].c.exp, clock) THEN "expired_ticket"
    ELSE ConsumeResult(usedJTIs, usedBulk, ticket[1].c, clock)

ReachesLock(ticket) ==
    TicketWellFormed(ticket) /\ ~Expired(ticket[1].c.exp, clock)

\* strings.TrimSpace(payload.Ticket): the ticket without surrounding blanks
TrimTicket(t) == t.str

\* line 114: payload.Ticket, "" when the object has no "ticket" member
JoinTicket(first) ==
    IF "ticket" \in DOMAIN first.env.payload.fields
    THEN TrimTicket(first.env.payload.fields.ticket)
    ELSE <<>>

\* (mutant) waitForJoin without the expiry check of ParseAndConsume
JoinOutcomeIgnoresExpiry(first) ==
    IF first.kind = "read_error" THEN "read_error"
    ELSE IF first.env.type # "rtc.join" THEN "first signaling message must be rtc.join"
    ELSE IF ~first.env.payload.object THEN "invalid rtc.join payload"
    ELSE IF ~TicketWellFormed(JoinTicket(first)) THEN "invalid_ticket"
    ELSE ConsumeResult(usedJTIs, usedBulk, JoinTicket(first)[1].c, clock)

\* lines 100-117: how waitForJoin ends for what the first read returns
JoinOutcome(first) ==
    IF first.kind = "read_error" THEN "read_error"
    ELSE IF first.env.type # "rtc.join" THEN "first signaling message must be rtc.join"
    ELSE IF ~first.env.payload.object THEN "invalid rtc.join payload"
    ELSE ParseAndConsumeResult(JoinTicket(first))

\* (mutant) every participant is granted every permission
NewParticipantAllPermissions(c, claims) ==
    [ParticipantID |-> c, ChannelID |-> claims.channel_id, UserUID |-> claims.user_uid,
     DeviceID |-> claims.device_id, Permissions |-> PermAll, JoinedAt |-> clock]

\* (mutant) the participant is identified by its user, not by its connection
NewParticipantKeyedByUser(c, claims) ==
    [ParticipantID |-> claims.user_uid, ChannelID |-> claims.channel_id,
     UserUID |-> claims.user_uid, DeviceID |-> claims.device_id,
     Permissions |-> claims.permissions, JoinedAt |-> clock]

\* lines 118-125
NewParticipant(c, claims) ==
    [ParticipantID |-> c, ChannelID |-> claims.channel_id, UserUID |-> claims.user_uid,
     DeviceID |-> claims.device_id, Permissions |-> claims.permissions,
     JoinedAt |-> clock]

\* readPump lines 76-79 with waitForJoin lines 98-126: the first read.  On an
\* error rtc_join_denied is enqueued and readPump returns into the deferred
\* closeConnection; on success c.participant is set.
FirstFrame(c, first) ==
    /\ rpc[c] = "waitJoin"
    /\ LET res    == JoinOutcome(first)
           ticket == JoinTicket(first)
       IN  /\ joinRes' = [joinRes EXCEPT ![c] = res]
           /\ IF res \in {"ok", "replay_ticket"} /\ ReachesLock(ticket)
              THEN /\ usedJTIs' = ConsumeMap(usedJTIs, usedBulk, ticket[1].c, clock)
                   /\ usedBulk' = gcUsedBulk(usedJTIs, usedBulk, clock)
              ELSE UNCHANGED <<usedJTIs, usedBulk>>
           /\ IF res = "ok"
              THEN /\ participant' = [participant EXCEPT ![c] = NewParticipant(c, ticket[1].c)]
                   /\ joinReq' = [joinReq EXCEPT ![c] = first.env.request_id]
                   /\ rpc' = [rpc EXCEPT ![c] = "register"]
                   /\ UNCHANGED <<send, retTo, once, closeRuns>>
              ELSE /\ send' = Enqueued({c}, ErrorEnvelope(c, "", "rtc_join_denied", res, FALSE))
                   /\ CallClose(c, "exit")
                   /\ UNCHANGED <<participant, joinReq>>
    /\ idle' = [idle EXCEPT ![c] = FALSE]
    /\ UNCHANGED <<tstatic, cvars>>
    /\ UNCHANGED <<rooms, wpc, chClosed, existing, frames, everReg, atInsert,
                   leftEnq, panicked, lastIn>>

\* waitForJoin line 128: roomHub.register, one critical section
Register(c) ==
    /\ rpc[c] = "register"
    /\ existing' = [existing EXCEPT ![c] = registerExisting(participant[c].ChannelID, c)]
    /\ rooms' = registerRooms(participant[c].ChannelID, c)
    /\ rpc' = [rpc EXCEPT ![c] = "sendJoined"]
    /\ everReg' = [everReg EXCEPT ![c] = TRUE]
    /\ atInsert' = [atInsert EXCEPT ![c] = Room(participant[c].ChannelID) \ {c}]
    /\ UNCHANGED <<tvars, cvars>>
    /\ UNCHANGED <<retTo, once, wpc, send, chClosed, participant, joinReq, idle, frames,
                   joinRes, closeRuns, leftEnq, panicked, lastIn>>

\* waitForJoin lines 130-136: rtc.joined to the client's own channel
SendJoined(c) ==
    /\ rpc[c] = "sendJoined"
    /\ Emit(c, {c}, JoinedEnvelope(c), "bcastJoined")
    /\ UNCHANGED <<tvars, cvars>>
    /\ UNCHANGED <<rooms, wpc, chClosed, participant, existing, joinReq, idle, frames,
                   joinRes, everReg, atInsert, leftEnq, lastIn>>

\* waitForJoin lines 138-150: rtc.participant.joined to the others, then the
\* read deadline is armed and the read loop starts
BroadcastJoined(c) ==
    /\ rpc[c] = "bcastJoined"
    /\ Emit(c, broadcastTargets(participant[c].ChannelID, participant[c].ParticipantID),
            ParticipantJoinedEnvelope(c), "loop")
    /\ idle' = [idle EXCEPT ![c] = FALSE]
    /\ UNCHANGED <<tvars, cvars>>
    /\ UNCHANGED <<rooms, wpc, chClosed, participant, existing, joinReq, frames,
                   joinRes, everReg, atInsert, leftEnq, lastIn>>

\* closeConnection line 286: roomHub.unregister, one critical section
Unregister(c) ==
    /\ rpc[c] = "unregister"
    /\ rooms' = unregisterRooms(participant[c].ChannelID, participant[c].ParticipantID)
    /\ rpc' = [rpc EXCEPT ![c] = "bcastLeft"]
    /\ UNCHANGED <<tvars, cvars>>
    /\ UNCHANGED <<retTo, once, wpc, send, chClosed, participant, existing, joinReq, idle,
                   frames, joinRes, everReg, atInsert, closeRuns, leftEnq, panicked, lastIn>>

\* closeConnection lines 287-301: rtc.participant.left to the room
BroadcastLeft(c) ==
    /\ rpc[c] = "bcastLeft"
    /\ LET targets == broadcastTargets(participant[c].ChannelID, "") IN
       /\ Emit(c, targets, ParticipantLeftEnvelope(c), "closeChans")
       /\ leftEnq' = [r \in Conns |->
                        IF r \in targets /\ send'[r] # send[r]
                        THEN [leftEnq[r] EXCEPT ![c] = @ + 1]
                        ELSE leftEnq[r]]
    /\ UNCHANGED <<tvars, cvars>>
    /\ UNCHANGED <<rooms, wpc, chClosed, participant, existing, joinReq, idle, frames,
                   joinRes, everReg, atInsert, lastIn>>

\* closeConnection lines 303-305: both channels and the socket are closed, and
\* closeConnection returns to its caller
CloseChans(c) ==
    /\ rpc[c] = "closeChans"
    /\ chClosed' = [chClosed EXCEPT ![c] = TRUE]
    /\ rpc' = [rpc EXCEPT ![c] = retTo[c]]
    /\ UNCHANGED <<tvars, cvars>>
    /\ UNCHANGED <<rooms, retTo, once, wpc, send, participant, existing, joinReq, idle,
                   frames, joinRes, everReg, atInsert, closeRuns, leftEnq, panicked, lastIn>>

\* readPump lines 83-91: ReadJSON fails (the peer closed, an I/O error, the read
\* deadline, the socket closed by closeConnection); readPump returns into the
\* deferred closeConnection.  A read error the peer or the network causes is an
\* event of the budget; on a socket closeConnection closed it is certain.
ReadError(c) ==
    /\ rpc[c] = "loop"
    /\ chClosed[c] \/ frames < MaxFrames
    /\ frames' = IF chClosed[c] THEN frames ELSE frames + 1
    /\ CallClose(c, "exit")
    /\ UNCHANGED <<tvars, cvars>>
    /\ UNCHANGED <<rooms, wpc, send, chClosed, participant, existing, joinReq, idle,
                   joinRes, everReg, atInsert, leftEnq, panicked, lastIn>>

-----------------------------------------------------------------------------
(* handleEnvelope *)

\* strings.HasPrefix(streamKind, "audio") on the stream kinds the model uses
HasAudioPrefix(streamKind) == streamKind \in {"audio", "audio_main"}

\* (mutant) the speak permission is asked for the stream kind "audio" only
MediaDeniedAudioExact(streamKind, permissions) ==
    CASE streamKind = "" -> FALSE
      [] streamKind = "video_camera" -> ~permissions.video
      [] streamKind = "video_screen" -> ~permissions.screenshare
      [] OTHER -> streamKind = "audio" /\ ~permissions.speak

\* (mutant) every stream kind may be published
MediaDeniedNever(streamKind, permissions) == FALSE

\* lines 177-197: the stream kind may not be published with these permissions
MediaDenied(streamKind, permissions) ==
    CASE streamKind = "" -> FALSE
      [] streamKind = "video_camera" -> ~permissions.video
      [] streamKind = "video_screen" -> ~permissions.screenshare
      [] OTHER -> HasAudioPrefix(streamKind) /\ ~permissions.speak

\* lines 184, 189, 194: the message of the denial
MediaDeniedMessage(streamKind) ==
    CASE streamKind = "video_camera" -> "participant is not allowed to publish camera video"
      [] streamKind = "video_screen" -> "participant is not allowed to publish screen share"
      [] OTHER -> "participant is not allowed to publish audio"

\* (mutant) the payload is broadcast as the client sent it
MediaStateEnvelopeAsSent(c, envelope) ==
    NewEnvelope("rtc.media.state", participant[c].ChannelID, envelope.request_id,
                DecodeObject(envelope.payload))

\* lines 199-201: the envelope relayMediaState broadcasts
MediaStateEnvelope(c, envelope) ==
    NewEnvelope("rtc.media.state", participant[c].ChannelID, envelope.request_id,
                Overlay(Overlay(DecodeObject(envelope.payload),
                                "participant_id", participant[c].ParticipantID),
                        "user_uid", participant[c].UserUID))

\* (mutant) the payload is forwarded as the client sent it
ForwardEnvelopeAsSent(c, envelope) ==
    NewEnvelope(envelope.type, participant[c].ChannelID, envelope.request_id,
                DecodeObject(envelope.payload))

\* lines 205-216: the envelope forwardSignal forwards
ForwardEnvelope(c, envelope) ==
    NewEnvelope(envelope.type, participant[c].ChannelID, envelope.request_id,
                Overlay(DecodeObject(envelope.payload),
                        "from_participant_id", participant[c].ParticipantID))

\* lines 214-215
ForwardTarget(envelope) == StringField(DecodeObject(envelope.payload), "target_participant_id")

SignalTypes ==
    {"rtc.offer.publish", "rtc.offer.subscribe", "rtc.answer.publish",
     "rtc.answer.subscribe", "rtc.ice.candidate"}

\* lines 153-166 with relayMediaState and forwardSignal: whom the dispatch of
\* `envelope` enqueues to
DispatchTargets(c, envelope) ==
    CASE envelope.type = "rtc.ping" -> {c}
      [] envelope.type = "rtc.leave" -> {}
      [] envelope.type = "rtc.media.state" ->
            IF MediaDenied(StringField(DecodeObject(envelope.payload), "stream_kind"),
                           participant[c].Permissions)
            THEN {c}
            ELSE broadcastTargets(participant[c].ChannelID, "")
      [] envelope.type \in SignalTypes ->
            IF ForwardTarget(envelope) # ""
            THEN IF sendToParticipantTargets(participant[c].ChannelID, ForwardTarget(envelope)) = {}
                 THEN {c}
                 ELSE sendToParticipantTargets(participant[c].ChannelID, ForwardTarget(envelope))
            ELSE broadcastTargets(participant[c].ChannelID, participant[c].ParticipantID)
      [] OTHER -> {c}

\* (mutant) rtc.join in the read loop is acknowledged as a join
DispatchEnvelopeJoinsAgain(c, envelope) ==
    IF envelope.type = "rtc.join" THEN JoinedEnvelope(c)
    ELSE ErrorEnvelope(c, envelope.request_id, "rtc_unknown_event",
                       "unsupported signaling event type", FALSE)

\* lines 153-166 with relayMediaState and forwardSignal: what it enqueues
DispatchEnvelope(c, envelope) ==
    CASE envelope.type = "rtc.ping" -> PongEnvelope(c, envelope.request_id)
      [] envelope.type = "rtc.media.state" ->
            IF MediaDenied(StringField(DecodeObject(envelope.payload), "stream_kind"),
                           participant[c].Permissions)
            THEN ErrorEnvelope(c, envelope.request_id, "rtc_media_denied",
                     MediaDeniedMessage(StringField(DecodeObject(envelope.payload), "stream_kind")),
                     FALSE)
            ELSE MediaStateEnvelope(c, envelope)
      [] envelope.type \in SignalTypes ->
            IF ForwardTarget(envelope) # ""
               /\ sendToParticipantTargets(participant[c].ChannelID, ForwardTarget(envelope)) = {}
            THEN ErrorEnvelope(c, envelope.request_id, "rtc_target_not_found",
                               "target participant is not available", TRUE)
            ELSE ForwardEnvelope(c, envelope)
      [] OTHER -> ErrorEnvelope(c, envelope.request_id, "rtc_unknown_event",
                                "unsupported signaling event type", FALSE)

\* (mutant) an envelope of an unsupported type ends the connection, as a first
\* frame that is not rtc.join does
ClosesConnectionOnUnknown(envelope) ==
    envelope.type \notin {"rtc.ping", "rtc.media.state"} \cup SignalTypes

\* lines 157-158: the envelope types handleEnvelope answers with closeConnection
ClosesConnection(envelope) == envelope.type = "rtc.leave"

\* readPump lines 83-93 and handleEnvelope: one inbound envelope is read (from
\* the socket, or from the read buffer when the socket is already closed), the
\* read deadline is re-armed and the envelope is dispatched
ReadEnvelope(c, envelope) ==
    /\ rpc[c] = "loop"
    /\ frames' = frames + 1
    /\ lastIn' = [from |-> c, seq |-> lastIn.seq + 1, env |-> envelope,
                  full |-> {r \in Conns : Len(send[r]) >= QueueCap}]
    /\ idle' = [idle EXCEPT ![c] = FALSE]
    /\ IF ClosesConnection(envelope)
       THEN /\ CallClose(c, "loop")
            /\ UNCHANGED <<send, panicked>>
       ELSE Emit(c, DispatchTargets(c, envelope), DispatchEnvelope(c, envelope), "loop")
    /\ UNCHANGED <<tvars, cvars>>
    /\ UNCHANGED <<rooms, wpc, chClosed, participant, existing, joinReq, joinRes,
                   everReg, atInsert, leftEnq>>

\* the same, for an envelope of the budget
HandleEnvelope(c, envelope) == frames < MaxFrames /\ ReadEnvelope(c, envelope)

\* The write goroutine of c has ended on a failed write and the peer sends
\* rtc.ping after rtc.ping: the read loop handles them one after the other,
\* each pong goes to c.send, which nothing drains, until the buffer is full;
\* from then on the pongs are dropped and a ping only re-arms the read deadline.
PingBurst(c) ==
    /\ c \in BadSocket
    /\ rpc[c] = "loop" /\ wpc[c] = "exited" /\ ~chClosed[c]
    /\ Len(send[c]) < QueueCap \/ idle[c]
    /\ send' = [send EXCEPT ![c] =
                  @ \o [i \in 1 .. (QueueCap - Len(@)) |-> PongEnvelope(c, "burst")]]
    /\ idle' = [idle EXCEPT ![c] = FALSE]
    /\ UNCHANGED <<tvars, cvars>>
    /\ UNCHANGED <<rooms, rpc, retTo, once, wpc, chClosed, participant, existing, joinReq,
                   frames, joinRes, everReg, atInsert, closeRuns, leftEnq, panicked, lastIn>>

-----------------------------------------------------------------------------
(* wsClient: the write goroutine *)

\* writePump lines 263-271: an envelope is taken from c.send and written; when
\* the write fails (an I/O error, the 10 s write deadline) writePump returns.
\* A write to a socket closeConnection has closed is part of WriterExit.
WriteFrame(c, ok) ==
    /\ wpc[c] = "run"
    /\ send[c] # <<>>
    /\ ~chClosed[c]
    /\ ~ok => c \in BadSocket
    /\ ok => frames < MaxFrames
    /\ frames' = IF ok THEN frames + 1 ELSE frames
    /\ send' = [send EXCEPT ![c] = Tail(@)]
    /\ wpc' = [wpc EXCEPT ![c] = IF ok THEN "run" ELSE "exited"]
    /\ UNCHANGED <<tvars, cvars>>
    /\ UNCHANGED <<rooms, rpc, retTo, once, chClosed, participant, existing, joinReq, idle,
                   joinRes, everReg, atInsert, closeRuns, leftEnq, panicked, lastIn>>

\* writePump lines 272-276: the ping of the ticker cannot be written.  The
\* ticker fires every 20 s, the first time after the 12 s within which the
\* first frame is read or waitForJoin gives up.
WritePingFails(c) ==
    /\ wpc[c] = "run"
    /\ rpc[c] # "waitJoin"
    /\ c \in BadSocket
    /\ ~chClosed[c]
    /\ wpc' = [wpc EXCEPT ![c] = "exited"]
    /\ UNCHANGED <<tvars, cvars>>
    /\ UNCHANGED <<rooms, rpc, retTo, once, send, chClosed, participant, existing, joinReq,
                   idle, frames, joinRes, everReg, atInsert, closeRuns, leftEnq, panicked,
                   lastIn>>

\* writePump lines 264-279 after closeConnection: c.send is closed and empty,
\* c.closed is closed, or what is written to the closed socket fails
WriterExit(c) ==
    /\ wpc[c] = "run"
    /\ chClosed[c]
    /\ wpc' = [wpc EXCEPT ![c] = "exited"]
    /\ UNCHANGED <<tvars, cvars>>
    /\ UNCHANGED <<rooms, rpc, retTo, once, send, chClosed, participant, existing, joinReq,
                   idle, frames, joinRes, everReg, atInsert, closeRuns, leftEnq, panicked,
                   lastIn>>

-----------------------------------------------------------------------------
(* wsClient: the write goroutine, a write as two steps (SpecWriter) *)

\* writePump lines 263-269: the select takes an envelope from c.send (a closed
\* channel still yields what it holds) and WriteJSON begins
TakeFrame(c) ==
    /\ wpc[c] = "run"
    /\ send[c] # <<>>
    /\ send' = [send EXCEPT ![c] = Tail(@)]
    /\ wpc' = [wpc EXCEPT ![c] = "write"]
    /\ UNCHANGED <<tvars, cvars>>
    /\ UNCHANGED <<rooms, rpc, retTo, once, chClosed, participant, existing, joinReq, idle,
                   frames, joinRes, everReg, atInsert, closeRuns, leftEnq, panicked, lastIn>>

\* writePump lines 272-274: the ticker has fired and WriteControl begins
WritePing(c) ==
    /\ wpc[c] = "run"
    /\ rpc[c] # "waitJoin"
    /\ wpc' = [wpc EXCEPT ![c] = "write"]
    /\ UNCHANGED <<tvars, cvars>>
    /\ UNCHANGED <<rooms, rpc, retTo, once, send, chClosed, participant, existing, joinReq,
                   idle, frames, joinRes, everReg, atInsert, closeRuns, leftEnq, panicked,
                   lastIn>>

\* (mutant) a write to a socket that closeConnection has closed never returns
WriteReturnsUnlessClosed(c, ok) ==
    /\ wpc[c] = "write"
    /\ ~chClosed[c]
    /\ ~ok => c \in BadSocket
    /\ wpc' = [wpc EXCEPT ![c] = IF ok THEN "run" ELSE "exited"]
    /\ UNCHANGED <<tvars, cvars>>
    /\ UNCHANGED <<rooms, rpc, retTo, once, send, chClosed, participant, existing, joinReq,
                   idle, frames, joinRes, everReg, atInsert, closeRuns, leftEnq, panicked,
                   lastIn>>

\* writePump lines 268-271 and 273-276: the write returns, at the latest at
\* its deadline of 10 s: without an error while the socket is open, and the
\* loop goes on; with an error on a bad socket or on one that line 305 has
\* closed, and writePump returns
WriteReturns(c, ok) ==
    /\ wpc[c] = "write"
    /\ ok => ~chClosed[c]
    /\ ~ok => (c \in BadSocket \/ chClosed[c])
    /\ wpc' = [wpc EXCEPT ![c] = IF ok THEN "run" ELSE "exited"]
    /\ UNCHANGED <<tvars, cvars>>
    /\ UNCHANGED <<rooms, rpc, retTo, once, send, chClosed, participant, existing, joinReq,
                   idle, frames, joinRes, everReg, atInsert, closeRuns, leftEnq, panicked,
                   lastIn>>

-----------------------------------------------------------------------------
(* Time: the read deadline (SpecSignalFair) *)

\* Time passes on a connection whose read goroutine waits in ReadJSON.
TimePasses(c) ==
    /\ rpc[c] \in {"waitJoin", "loop"}
    /\ ~idle[c]
    /\ idle' = [idle EXCEPT ![c] = TRUE]
    /\ UNCHANGED <<tvars, cvars>>
    /\ UNCHANGED <<rooms, rpc, retTo, once, wpc, send, chClosed, participant, existing,
                   joinReq, frames, joinRes, everReg, atInsert, closeRuns, leftEnq,
                   panicked, lastIn>>

\* lines 71-74: the peer sends a pong control frame, the pong handler re-arms
\* the read deadline
PeerPong(c) ==
    /\ rpc[c] = "loop"
    /\ idle[c]
    /\ ~chClosed[c]
    /\ idle' = [idle EXCEPT ![c] = FALSE]
    /\ UNCHANGED <<tvars, cvars>>
    /\ UNCHANGED <<rooms, rpc, retTo, once, wpc, send, chClosed, participant, existing,
                   joinReq, frames, joinRes, everReg, atInsert, closeRuns, leftEnq,
                   panicked, lastIn>>

\* lines 70, 92, 98, 149: nothing was read before the deadline; ReadJSON
\* returns a timeout error.  In waitForJoin that is a denied join, in the
\* read loop readPump returns.
ReadDeadline(c) ==
    /\ idle[c]
    /\ \/ /\ rpc[c] = "loop"
          /\ CallClose(c, "exit")
          /\ UNCHANGED <<send, joinRes>>
       \/ /\ rpc[c] = "waitJoin"
          /\ joinRes' = [joinRes EXCEPT ![c] = "read_error"]
          /\ send' = Enqueued({c}, ErrorEnvelope(c, "", "rtc_join_denied", "read_error", FALSE))
          /\ CallClose(c, "exit")
    /\ idle' = [idle EXCEPT ![c] = FALSE]
    /\ UNCHANGED <<tvars, cvars>>
    /\ UNCHANGED <<rooms, wpc, chClosed, participant, existing, joinReq, frames, everReg,
                   atInsert, leftEnq, panicked, lastIn>>

-----------------------------------------------------------------------------
(* chat.Service: the server directory and server membership *)

MaxLeaves == 2      \* LeaveServer calls

\* seedServerDirectory(): the ServerID of the entries of Service.servers, in order
servers == <<"srv_harbor", "srv_testlab">>

\* the keys of channelGroupsByServer (seedChannelGroups)
channelGroupsByServer == {"srv_harbor", "srv_testlab"}

\* what callers pass as server id and as user uid
LeaveServerIDs == {"srv_harbor", "srv_testlab", " srv_testlab ", "srv_nowhere", " "}
LeaveUserUIDs == {"uid_a", " uid_a ", "uid_b", " ", ""}

\* s.leftServersByUser[userUID]: nil for a user that has left nothing
leftByServerID(userUID) ==
    IF userUID \in DOMAIN leftServersByUser THEN leftServersByUser[userUID] ELSE {}

\* Service.ListServersForUser: the entries of Service.servers, in their order,
\* without those the (trimmed) user has left
ListServersForUser(userUID) ==
    SelectSeq(servers, LAMBDA server : server \notin leftByServerID(TrimSpace(userUID)))

\* (mutant) every user leaves
LeaveServerForAll(serverID, userUID) ==
    [u \in DOMAIN leftServersByUser \cup {"uid_a", "uid_b"} |->
        leftByServerID(u) \cup {serverID}]

\* LeaveServer, lines 506-511: leftServersByUser with serverID recorded for
\* userUID (both trimmed); the time of leaving is a value nothing reads
LeaveServerMap(serverID, userUID) ==
    [u \in DOMAIN leftServersByUser \cup {userUID} |->
        IF u = userUID THEN leftByServerID(u) \cup {serverID} ELSE leftServersByUser[u]]

\* LeaveServer, lines 488-504: the error it returns, "none" for nil
LeaveServerError(serverID, userUID) ==
    IF TrimSpace(serverID) = "" THEN "server id is required"
    ELSE IF TrimSpace(userUID) = "" THEN "user uid is required"
    ELSE IF TrimSpace(serverID) \notin channelGroupsByServer THEN "unknown server id"
    ELSE "none"

\* Service.LeaveServer(serverID, userUID)
LeaveServer(serverID, userUID) ==
    /\ Len(leaves) < MaxLeaves
    /\ leaves' = Append(leaves, [serverID |-> serverID, userUID |-> userUID,
                                 err |-> LeaveServerError(serverID, userUID)])
    /\ IF LeaveServerError(serverID, userUID) = "none"
       THEN leftServersByUser' = LeaveServerMap(TrimSpace(serverID), TrimSpace(userUID))
       ELSE UNCHANGED leftServersByUser
    /\ UNCHANGED <<clientsByID, subscribersByRoom, subscriptions, hpc, hsend, hpending,
                   hframes>>
    /\ UNCHANGED <<tvars, svars>>

-----------------------------------------------------------------------------
(* realtime.Hub: the chat realtime hub and its clients *)

MaxHubFrames == 2   \* inbound envelopes dispatched by the chat clients

HubClients == {"h1", "h2"}

HubEnvelope(eventType, channelID) == [type |-> eventType, channel_id |-> channelID]

\* what a chat client sends: payload.channel_id as written by the client
HubInbound ==
    {HubEnvelope(t, ch) : t \in {"chat.subscribe", "chat.unsubscribe", "chat.typing.update"},
                          ch \in {"ch_general", " ch_general ", "ch_design", " "}}
        \cup {HubEnvelope("chat.ping", ""), HubEnvelope("chat.bogus", "")}

\* an outbound envelope: its type, the channel it is about, and the member,
\* the members or the error code of its payload
HubOut(eventType, channelID, about) ==
    [type |-> eventType, channel_id |-> channelID, about |-> about]

\* one call of client.enqueue that a handler has yet to make
HubSend(to, envelope) == [to |-> to, envelope |-> envelope]

\* h.subscribersByRoom[channelID]: nil for a channel without a room
HubRoom(channelID) ==
    IF channelID \in DOMAIN subscribersByRoom THEN subscribersByRoom[channelID] ELSE {}

\* the sends to a set of peers, in some order of the map iteration
RECURSIVE HubSendAll(_, _)
HubSendAll(peers, envelope) ==
    IF peers = {} THEN <<>>
    ELSE LET p == CHOOSE x \in peers : TRUE IN
         <<HubSend(p, envelope)>> \o HubSendAll(peers \ {p}, envelope)

\* Hub.subscribe, lines 173-190: the room map afterwards
subscribeRooms(c, channelID) ==
    [ch \in DOMAIN subscribersByRoom \cup {channelID} |->
        IF ch = channelID THEN HubRoom(ch) \cup {c} ELSE subscribersByRoom[ch]]

\* (mutant) the room is left in the map when its last subscriber goes
hubLeaveRoomsKeepsEmpty(c, channels) ==
    [ch \in DOMAIN subscribersByRoom |->
        IF ch \in channels THEN subscribersByRoom[ch] \ {c} ELSE subscribersByRoom[ch]]

\* Hub.unsubscribe lines 199-210 and Hub.unregister lines 147-166: c deleted
\* from the rooms of the given channels, a room that is empty now deleted
hubLeaveRooms(c, channels) ==
    [ch \in {x \in DOMAIN subscribersByRoom :
                ~(x \in channels /\ subscribersByRoom[x] \ {c} = {})} |->
        IF ch \in channels THEN subscribersByRoom[ch] \ {c} ELSE subscribersByRoom[ch]]

\* client.enqueue: the envelope is dropped when the queue is full, and when
\* the channel is closed (the panic of the send is recovered)
hubEnqueue(queues, call) ==
    IF hpc[call.to] = "closed" \/ Len(queues[call.to]) >= QueueCap
    THEN queues
    ELSE [queues EXCEPT ![call.to] = Append(@, call.envelope)]

RECURSIVE hubEnqueueAll(_, _)
hubEnqueueAll(queues, calls) ==
    IF calls = <<>> THEN queues
    ELSE hubEnqueueAll(hubEnqueue(queues, Head(calls)), Tail(calls))

\* Hub.ServeWS, lines 82-95: the client is made and registered
HubServeWS(c) ==
    /\ hpc[c] = "new"
    /\ clientsByID' = clientsByID \cup {c}
    /\ hpc' = [hpc EXCEPT ![c] = "read"]
    /\ UNCHANGED <<leftServersByUser, leaves, subscribersByRoom, subscriptions, hsend,
                   hpending, hframes>>
    /\ UNCHANGED <<tvars, svars>>

\* client.handleEnvelope up to the return of the hub's locked section: what it
\* has yet to enqueue, in the order of the code
HubReplies(c, envelope, channelID) ==
    CASE envelope.type = "chat.subscribe" /\ channelID = "" ->
           <<HubSend(c, HubOut("chat.error", "", "chat_channel_required"))>>
      [] envelope.type = "chat.subscribe" /\ channelID # "" ->
           <<HubSend(c, HubOut("chat.subscribed", channelID, "")),
             HubSend(c, HubOut("chat.presence.snapshot", channelID,
                               HubRoom(channelID) \cup {c}))>>
             \o (IF channelID \in subscriptions[c] THEN <<>>
                 ELSE HubSendAll(HubRoom(channelID) \ {c},
                                 HubOut("chat.presence.joined", channelID, c)))
      [] envelope.type = "chat.unsubscribe" /\ channelID = "" -> <<>>
      [] envelope.type = "chat.unsubscribe" /\ channelID # "" ->
           <<HubSend(c, HubOut("chat.unsubscribed", channelID, ""))>>
             \o (IF channelID \notin subscriptions[c] THEN <<>>
                 ELSE HubSendAll(HubRoom(channelID) \ {c},
                                 HubOut("chat.presence.left", channelID, c)))
      [] envelope.type = "chat.typing.update" /\ channelID = "" ->
           <<HubSend(c, HubOut("chat.error", "", "chat_channel_required"))>>
      [] envelope.type = "chat.typing.update" /\ channelID # "" ->
           IF channelID \notin subscriptions[c]
           THEN <<HubSend(c, HubOut("chat.error", "", "chat_not_subscribed"))>>
           ELSE HubSendAll(HubRoom(channelID) \ {c},
                           HubOut("chat.typing.updated", channelID, c))
      [] envelope.type = "chat.ping" -> <<HubSend(c, HubOut("chat.pong", "", ""))>>
      [] OTHER -> <<HubSend(c, HubOut("chat.error", "", "chat_unknown_event"))>>

\* client.handleEnvelope, lines 253-325, up to where it starts to enqueue
HubHandleEnvelope(c, envelope) ==
    LET channelID == TrimSpace(envelope.channel_id) IN
    /\ hpc[c] = "read"
    /\ hframes < MaxHubFrames
    /\ hframes' = hframes + 1
    /\ hpending' = [hpending EXCEPT ![c] = HubReplies(c, envelope, channelID)]
    /\ hpc' = [hpc EXCEPT ![c] = "deliver"]
    /\ IF envelope.type = "chat.subscribe" /\ channelID # ""
       THEN /\ subscribersByRoom' = subscribeRooms(c, channelID)
            /\ subscriptions' = [subscriptions EXCEPT ![c] = @ \cup {channelID}]
       ELSE IF envelope.type = "chat.unsubscribe" /\ channelID \in subscriptions[c]
       THEN /\ subscribersByRoom' = hubLeaveRooms(c, {channelID})
            /\ subscriptions' = [subscriptions EXCEPT ![c] = @ \ {channelID}]
       ELSE UNCHANGED <<subscribersByRoom, subscriptions>>
    /\ UNCHANGED <<leftServersByUser, leaves, clientsByID, hsend>>
    /\ UNCHANGED <<tvars, svars>>

\* the calls of enqueue that end handleEnvelope, back to the read loop
HubDeliver(c) ==
    /\ hpc[c] = "deliver"
    /\ hsend' = hubEnqueueAll(hsend, hpending[c])
    /\ hpending' = [hpending EXCEPT ![c] = <<>>]
    /\ hpc' = [hpc EXCEPT ![c] = "read"]
    /\ UNCHANGED <<leftServersByUser, leaves, clientsByID, subscribersByRoom, subscriptions,
                   hframes>>
    /\ UNCHANGED <<tvars, svars>>

\* the chat.presence.left envelopes of client.close, one departure after the
\* other
RECURSIVE HubDepartures(_, _)
HubDepartures(c, channels) ==
    IF channels = {} THEN <<>>
    ELSE LET ch == CHOOSE x \in channels : TRUE IN
         HubSendAll(HubRoom(ch) \ {c}, HubOut("chat.presence.left", ch, c))
            \o HubDepartures(c, channels \ {ch})

\* ReadJSON fails: readLoop returns into client.close, whose closeOnce.Do runs
\* Hub.unregister, lines 142-170
HubUnregister(c) ==
    /\ hpc[c] = "read"
    /\ clientsByID' = clientsByID \ {c}
    /\ subscribersByRoom' = hubLeaveRooms(c, subscriptions[c])
    /\ subscriptions' = [subscriptions EXCEPT ![c] = {}]
    /\ hpending' = [hpending EXCEPT ![c] = HubDepartures(c, subscriptions[c])]
    /\ hpc' = [hpc EXCEPT ![c] = "closing"]
    /\ UNCHANGED <<leftServersByUser, leaves, hsend, hframes>>
    /\ UNCHANGED <<tvars, svars>>

\* client.close, lines 382-394: the departures are enqueued, then c.closed and
\* c.send are closed and the socket too
HubClose(c) ==
    /\ hpc[c] = "closing"
    /\ hsend' = hubEnqueueAll(hsend, hpending[c])
    /\ hpending' = [hpending EXCEPT ![c] = <<>>]
    /\ hpc' = [hpc EXCEPT ![c] = "closed"]
    /\ UNCHANGED <<leftServersByUser, leaves, clientsByID, subscribersByRoom, subscriptions,
                   hframes>>
    /\ UNCHANGED <<tvars, svars>>

\* client.writeLoop, lines 345-352: an envelope is taken from c.send
HubWrite(c) ==
    /\ hpc[c] \notin {"new", "closed"}
    /\ hsend[c] # <<>>
    /\ hsend' = [hsend EXCEPT ![c] = Tail(@)]
    /\ UNCHANGED <<leftServersByUser, leaves, clientsByID, subscribersByRoom, subscriptions,
                   hpc, hpending, hframes>>
    /\ UNCHANGED <<tvars, svars>>

\* no directory call was made and no chat client has connected
NoChat ==
    /\ leftServersByUser = <<>>
    /\ leaves = <<>>
    /\ clientsByID = {}
    /\ subscribersByRoom = <<>>
    /\ subscriptions = [c \in HubClients |-> {}]
    /\ hpc = [c \in HubClients |-> "new"]
    /\ hsend = [c \in HubClients |-> <<>>]
    /\ hpending = [c \in HubClients |-> <<>>]
    /\ hframes = 0

-----------------------------------------------------------------------------
(* The ticket authority alone *)

BulkChoices == {0, GcThreshold - 1}

\* the fabric with no connection: every goroutine has ended
NoConnections ==
    /\ rooms = <<>>
    /\ rpc = [c \in Conns |-> "exit"]
    /\ retTo = [c \in Conns |-> "exit"]
    /\ once = [c \in Conns |-> TRUE]
    /\ wpc = [c \in Conns |-> "exited"]
    /\ send = [c \in Conns |-> <<>>]
    /\ chClosed = [c \in Conns |-> TRUE]
    /\ participant = [c \in Conns |-> NoParticipant]
    /\ existing = [c \in Conns |-> {}]
    /\ joinReq = [c \in Conns |-> ""]
    /\ idle = [c \in Conns |-> FALSE]
    /\ frames = 0
    /\ joinRes = [c \in Conns |-> "none"]
    /\ everReg = [c \in Conns |-> FALSE]
    /\ atInsert = [c \in Conns |-> {}]
    /\ closeRuns = [c \in Conns |-> 0]
    /\ leftEnq = [r \in Conns |-> [p \in Conns |-> 0]]
    /\ panicked = [c \in Conns |-> FALSE]
    /\ lastIn = NoInbound

InitTicket ==
    /\ clock = 0
    /\ issued = <<>>
    /\ usedJTIs = <<>>
    /\ usedBulk \in BulkChoices
    /\ tpc = [k \in Callers |-> "idle"]
    /\ tcall = [k \in Callers |-> NoCall]
    /\ lastIssue = NoIssue
    /\ log = <<>>
    /\ NoConnections
    /\ NoChat

NextTicket ==
    \/ \E input \in IssueInputs : Issue(input)
    \/ \E k \in Callers, ticket \in Presentable : PCCheck(k, ticket)
    \/ \E k \in Callers : PCLocked(k)
    \/ Tick

SpecTicket == InitTicket /\ [][NextTicket]_vars

\* the ticket authority called by one goroutine at a time, with whatever
\* strings a caller can pass
MaxAnyTickets == 1  \* tickets issued to that caller

NextTicketAny ==
    \/ \E input \in AnyIssueInputs : Len(issued) < MaxAnyTickets /\ Issue(input)
    \/ \E ticket \in AnyPresentable : PCCheck("g1", ticket)
    \/ PCLocked("g1")
    \/ Tick

SpecTicketAny == InitTicket /\ [][NextTicketAny]_vars

-----------------------------------------------------------------------------
(* The signaling fabric *)

JoinInput(channelID, userUID, permissions) ==
    [ServerID |-> "srv_local", ChannelID |-> channelID, UserUID |-> userUID,
     DeviceID |-> "dev_1", Permissions |-> permissions]

\* The tickets TokenService.Issue has issued before the connections are made:
\* all at time TTL but the last, issued at time 0.
SignalClaims ==
    << IssueClaims(JoinInput("vc_general", "uid_a", PermSpeakVideo), TTL, 1),
       IssueClaims(JoinInput("vc_general", "uid_b", PermSpeakOnly), TTL, 2),
       IssueClaims(JoinInput("vc_party", "uid_c", PermNone), TTL, 3),
       IssueClaims(JoinInput("vc_general", "uid_c", PermAll), TTL, 4),
       IssueClaims(JoinInput("vc_general", "uid_c", PermAll), 0, 5) >>

SignalIssued ==
    [i \in DOMAIN SignalClaims |->
        [ticket |-> TicketString(SignalClaims[i]), claims |-> SignalClaims[i]]]

JoinFrame(requestID, ticket) ==
    [kind |-> "frame",
     env  |-> Inbound("rtc.join", requestID, RawObject([ticket |-> [pad |-> " ", str |-> ticket]]))]

OtherSecretTicket(ticket) ==
    <<ticket[1], EncodeSignature(SignWith("other-secret", ticket[1]))>>

\* what the peer of connection c does first
FirstFrames(c) ==
    CASE c = "B" -> {JoinFrame("join-b", SignalIssued[2].ticket)}
      [] OTHER ->
           {JoinFrame("join-c", SignalIssued[4].ticket),
            JoinFrame("join-c", SignalIssued[3].ticket),
            JoinFrame("join-c", SignalIssued[1].ticket),
            JoinFrame("join-c", SignalIssued[5].ticket),
            JoinFrame("join-c", OtherSecretTicket(SignalIssued[4].ticket)),
            [kind |-> "frame", env |-> Inbound("rtc.join", "join-c", RawMalformed)],
            [kind |-> "frame", env |-> Inbound("rtc.ping", "ping-c", RawMalformed)],
            [kind |-> "read_error", env |-> Inbound("", "", RawMalformed)]}

Ping == Inbound("rtc.ping", "r-ping", RawMalformed)
Leave == Inbound("rtc.leave", "r-leave", RawMalformed)
\* rtc.join once more, with a ticket that is valid and was never presented
JoinAgain == JoinFrame("r-again", SignalIssued[4].ticket).env
MediaState(streamKind) ==
    Inbound("rtc.media.state", "r-media",
            RawObject([stream_kind |-> streamKind, participant_id |-> "spoofed",
                       user_uid |-> "uid_spoofed", muted |-> "no"]))
Signal(eventType, target) ==
    Inbound(eventType, "r-signal",
            RawObject([target_participant_id |-> target, from_participant_id |-> "spoofed",
                       sdp |-> "v=0"]))
SignalToAll == Inbound("rtc.answer.subscribe", "r-answer", RawMalformed)

\* the envelopes the peer of a joined connection c sends
LoopFrames(c) ==
    CASE c = "A" -> {Ping, Leave, JoinAgain, MediaState("video_camera"),
                     Signal("rtc.offer.publish", "B"),
                     Signal("rtc.ice.candidate", "nobody"), SignalToAll}
      [] c = "B" -> {MediaState("video_camera"), Signal("rtc.ice.candidate", "nobody")}
      [] OTHER -> {Signal("rtc.answer.publish", "A"), MediaState("audio_main")}

\* Connections `joined` have joined with ticket 1 and their rtc.joined has been
\* written to the socket; connections `absent` have come and gone.  For the
\* others ServeWS lines 46-54 have run: an empty channel of capacity 64, the
\* write goroutine started, the read goroutine about to read the first frame.
InitConnections(joined, absent) ==
    /\ clock = TTL
    /\ issued = SignalIssued
    /\ usedJTIs = ConsumeMap(<<>>, 0, SignalClaims[1], TTL)
    /\ usedBulk = 0
    /\ tpc = [k \in Callers |-> "idle"]
    /\ tcall = [k \in Callers |-> NoCall]
    /\ lastIssue = NoIssue
    /\ log = <<>>
    /\ rooms = [ch \in {SignalClaims[1].channel_id} |-> joined]
    /\ rpc = [c \in Conns |-> IF c \in joined THEN "loop"
                               ELSE IF c \in absent THEN "exit" ELSE "waitJoin"]
    /\ retTo = [c \in Conns |-> "exit"]
    /\ once = [c \in Conns |-> c \in absent]
    /\ wpc = [c \in Conns |-> IF c \in absent THEN "exited" ELSE "run"]
    /\ send = [c \in Conns |-> <<>>]
    /\ chClosed = [c \in Conns |-> c \in absent]
    /\ participant = [c \in Conns |->
                        IF c \in joined THEN NewParticipant(c, SignalClaims[1])
                        ELSE NoParticipant]
    /\ existing = [c \in Conns |-> {}]
    /\ joinReq = [c \in Conns |-> IF c \in joined THEN "join-a" ELSE ""]
    /\ idle = [c \in Conns |-> FALSE]
    /\ frames = 0
    /\ joinRes = [c \in Conns |-> IF c \in joined THEN "ok" ELSE "none"]
    /\ everReg = [c \in Conns |-> c \in joined]
    /\ atInsert = [c \in Conns |-> {}]
    /\ closeRuns = [c \in Conns |-> IF c \in absent THEN 1 ELSE 0]
    /\ leftEnq = [r \in Conns |-> [p \in Conns |-> 0]]
    /\ panicked = [c \in Conns |-> FALSE]
    /\ lastIn = NoInbound
    /\ NoChat

InitSignal == InitConnections({"A"}, {})

ReaderStep(c) ==
    \/ Register(c)
    \/ SendJoined(c)
    \/ BroadcastJoined(c)
    \/ Unregister(c)
    \/ BroadcastLeft(c)
    \/ CloseChans(c)

WriterStep(c) ==
    \/ WriteFrame(c, TRUE)
    \/ WriteFrame(c, FALSE)
    \/ WritePingFails(c)
    \/ WriterExit(c)

NextSignal ==
    \/ \E c \in Conns : \E first \in FirstFrames(c) : FirstFrame(c, first)
    \/ \E c \in Conns : \E envelope \in LoopFrames(c) : HandleEnvelope(c, envelope)
    \/ \E c \in Conns : ReadError(c)
    \/ \E c \in Conns : PingBurst(c)
    \/ \E c \in Conns : ReaderStep(c)
    \/ \E c \in Conns : WriterStep(c)

SpecSignal == InitSignal /\ [][NextSignal]_vars

-----------------------------------------------------------------------------
(* The signaling fabric with time and the scheduler *)

InitSignalFair == InitConnections({"A"}, {"C"})

NextSignalFair ==
    \/ NextSignal
    \/ \E c \in Conns : TimePasses(c)
    \/ \E c \in Conns : PeerPong(c)
    \/ \E c \in Conns : ReadDeadline(c)

\* A goroutine that can take a step of the program takes it; time passes; a
\* read whose deadline has passed returns; a read on a closed socket returns.
\* Nothing is assumed of what the peers send and of when a write succeeds.
FairSignal ==
    \A c \in Conns :
        /\ WF_vars(ReaderStep(c))
        /\ WF_vars(WriterExit(c))
        /\ WF_vars(chClosed[c] /\ ReadError(c))
        /\ WF_vars(TimePasses(c))
        /\ WF_vars(ReadDeadline(c))

SpecSignalFair == InitSignalFair /\ [][NextSignalFair]_vars /\ FairSignal

-----------------------------------------------------------------------------
(* A connection that leaves while its peer has sent more *)

MaxLeaveFrames == 2     \* envelopes read after the first frames

\* what the peers send: A leaves, pings and sends what is no event of a joined
\* connection; B signals to A and to the room, and joins once more
LeaveFrames(c) ==
    CASE c = "A" -> {Leave, Ping, JoinAgain}
      [] OTHER -> {Signal("rtc.answer.publish", "A"), SignalToAll, JoinAgain}

NextLeave ==
    \/ \E c \in Conns : \E first \in FirstFrames(c) : FirstFrame(c, first)
    \/ \E c \in Conns : \E envelope \in LeaveFrames(c) :
          frames < MaxLeaveFrames /\ ReadEnvelope(c, envelope)
    \/ \E c \in Conns : ReadError(c)
    \/ \E c \in Conns : PingBurst(c)
    \/ \E c \in Conns : ReaderStep(c)
    \/ \E c \in Conns : WriterStep(c)

SpecLeave == InitSignalFair /\ [][NextLeave]_vars

-----------------------------------------------------------------------------
(* The write goroutine with its writes in progress *)

NextWriter ==
    \/ \E c \in Conns : \E first \in FirstFrames(c) : FirstFrame(c, first)
    \/ \E c \in Conns : \E envelope \in LoopFrames(c) : HandleEnvelope(c, envelope)
    \/ \E c \in Conns : ReadError(c)
    \/ \E c \in Conns : ReaderStep(c)
    \/ \E c \in Conns : TakeFrame(c)
    \/ \E c \in Conns : WritePing(c)
    \/ \E c \in Conns : \E ok \in BOOLEAN : WriteReturns(c, ok)
    \/ \E c \in Conns : WriterExit(c)

\* A goroutine that can take a step of the program takes it, and a write
\* returns (lines 268 and 273-274 set its deadline).  Nothing is assumed of
\* the peers.
FairWriter ==
    \A c \in Conns :
        /\ WF_vars(ReaderStep(c))
        /\ WF_vars(WriterExit(c))
        /\ WF_vars(\E ok \in BOOLEAN : WriteReturns(c, ok))

SpecWriter == InitSignalFair /\ [][NextWriter]_vars /\ FairWriter

-----------------------------------------------------------------------------
(* Joining and leaving before any write goroutine has taken an envelope *)

\* the read goroutines alone: every queue holds all that was enqueued to it
NextPresence ==
    \/ \E c \in Conns : \E first \in FirstFrames(c) : FirstFrame(c, first)
    \/ \E c \in Conns : ReadError(c)
    \/ \E c \in Conns : ReaderStep(c)

SpecPresence == InitSignal /\ [][NextPresence]_vars

-----------------------------------------------------------------------------
(* relayMediaState as a function of stream kind and permissions *)

AllPermissions == {Permissions(s, v, x) : s, v, x \in BOOLEAN}

\* the stream_kind values a client sends: none, the three kinds of the
\* permission model, one with surrounding blanks, and kinds of its own
StreamKinds ==
    {"", "video_camera", "video_screen", "audio", "audio_main", " video_camera ",
     "Video_Camera", "data_chat"}

MediaFrames ==
    {MediaState(k) : k \in StreamKinds}
        \cup {Inbound("rtc.media.state", "r-media", RawMalformed),
              Inbound("rtc.media.state", "r-media", RawObject([muted |-> "yes"]))}

MediaClaims(permA, permB) ==
    << IssueClaims(JoinInput("vc_general", "uid_a", permA), TTL, 1),
       IssueClaims(JoinInput("vc_general", "uid_b", permB), TTL, 2) >>

\* A and B have joined vc_general with tickets of any permissions and what
\* they were enqueued on joining has been written; C has come and gone
InitMedia ==
    \E permA, permB \in AllPermissions :
        /\ clock = TTL
        /\ issued = [i \in {1, 2} |->
                       [ticket |-> TicketString(MediaClaims(permA, permB)[i]),
                        claims |-> MediaClaims(permA, permB)[i]]]
        /\ usedJTIs = ConsumeMap(ConsumeMap(<<>>, 0, MediaClaims(permA, permB)[1], TTL), 0,
                                 MediaClaims(permA, permB)[2], TTL)
        /\ usedBulk = 0
        /\ tpc = [k \in Callers |-> "idle"]
        /\ tcall = [k \in Callers |-> NoCall]
        /\ lastIssue = NoIssue
        /\ log = <<>>
        /\ rooms = [ch \in {"vc_general"} |-> {"A", "B"}]
        /\ rpc = [c \in Conns |-> IF c = "C" THEN "exit" ELSE "loop"]
        /\ retTo = [c \in Conns |-> "exit"]
        /\ once = [c \in Conns |-> c = "C"]
        /\ wpc = [c \in Conns |-> IF c = "C" THEN "exited" ELSE "run"]
        /\ send = [c \in Conns |-> <<>>]
        /\ chClosed = [c \in Conns |-> c = "C"]
        /\ participant = [c \in Conns |->
                            CASE c = "A" -> NewParticipant(c, MediaClaims(permA, permB)[1])
                              [] c = "B" -> NewParticipant(c, MediaClaims(permA, permB)[2])
                              [] OTHER -> NoParticipant]
        /\ existing = [c \in Conns |-> IF c = "B" THEN {"A"} ELSE {}]
        /\ joinReq = [c \in Conns |-> IF c = "C" THEN "" ELSE "join"]
        /\ idle = [c \in Conns |-> FALSE]
        /\ frames = 0
        /\ joinRes = [c \in Conns |-> IF c = "C" THEN "none" ELSE "ok"]
        /\ everReg = [c \in Conns |-> c # "C"]
        /\ atInsert = [c \in Conns |-> IF c = "B" THEN {"A"} ELSE {}]
        /\ closeRuns = [c \in Conns |-> IF c = "C" THEN 1 ELSE 0]
        /\ leftEnq = [r \in Conns |-> [p \in Conns |-> 0]]
        /\ panicked = [c \in Conns |-> FALSE]
        /\ lastIn = NoInbound
        /\ NoChat

NextMedia == \E c \in {"A", "B"} : \E envelope \in MediaFrames : HandleEnvelope(c, envelope)

SpecMedia == InitMedia /\ [][NextMedia]_vars

-----------------------------------------------------------------------------
(* API: the join-ticket endpoint, POST /v1/rtc/channels/{channelID}/join-ticket *)

\* chat.Service: the seeded directory as indexChannels indexes it
channelServerByID ==
    [ch \in {"ch_general", "vc_general", "vc_party", "tl_ch_general", "tl_vc_huddle"} |->
        IF ch \in {"tl_ch_general", "tl_vc_huddle"} THEN "srv_testlab" ELSE "srv_harbor"]

channelTypeByID ==
    [ch \in DOMAIN channelServerByID |->
        IF ch \in {"vc_general", "vc_party", "tl_vc_huddle"} THEN "voice" ELSE "text"]

ServerExists(serverID) == serverID \in {"srv_harbor", "srv_testlab"}

ChannelExists(channelID) == channelID \in DOMAIN channelTypeByID

\* the zero ChannelType of an unknown id is not "voice"
IsVoiceChannel(channelID) ==
    channelID \in DOMAIN channelTypeByID /\ channelTypeByID[channelID] = "voice"

\* capabilities.Build().ServerID
DefaultServerID == "srv_harbor"

\* what a client puts into the path and into the body
ChannelParams == {"vc_general", " vc_general ", "tl_vc_huddle", "ch_general", "vc_nowhere", " "}
ServerParams == {"", " ", "srv_harbor", "srv_testlab", "srv_nowhere"}

\* lines 34-37: the server id of the body, the server's own when there is none
RequestServerID(serverParam) ==
    IF TrimSpace(serverParam) = "" THEN DefaultServerID ELSE TrimSpace(serverParam)

\* (mutant) the channel kind is not looked at
JoinTicketErrorAnyKind(channelParam, serverParam) ==
    IF TrimSpace(channelParam) = "" THEN "invalid_channel"
    ELSE IF ~ChannelExists(TrimSpace(channelParam)) THEN "channel_not_found"
    ELSE IF ~ServerExists(RequestServerID(serverParam)) THEN "server_not_found"
    ELSE "none"

\* lines 18-44: the error the pre-checks answer, "none" when they pass
JoinTicketError(channelParam, serverParam) ==
    IF TrimSpace(channelParam) = "" THEN "invalid_channel"
    ELSE IF ~ChannelExists(TrimSpace(channelParam)) THEN "channel_not_found"
    ELSE IF ~IsVoiceChannel(TrimSpace(channelParam)) THEN "invalid_channel_type"
    ELSE IF ~ServerExists(RequestServerID(serverParam)) THEN "server_not_found"
    ELSE "none"

\* lines 46-56: what the handler passes to TokenService.Issue
JoinTicketInput(channelParam, serverParam) ==
    [ServerID |-> RequestServerID(serverParam), ChannelID |-> TrimSpace(channelParam),
     UserUID |-> "uid_a", DeviceID |-> "dev_a", Permissions |-> PermAll]

\* what is kept of a request that was answered with an error
JoinTicketRefused(channelParam, serverParam, code) ==
    [res |-> code,
     input |-> [ServerID |-> serverParam, ChannelID |-> channelParam,
                UserUID |-> "uid_a", DeviceID |-> "dev_a", Permissions |-> PermAll],
     ticket |-> <<>>, claims |-> NoClaims]

\* Server.issueJoinTicket, lines 17-60
issueJoinTicket(channelParam, serverParam) ==
    IF JoinTicketError(channelParam, serverParam) = "none"
    THEN Issue(JoinTicketInput(channelParam, serverParam))
    ELSE /\ Len(issued) < MaxTickets
         /\ lastIssue' = JoinTicketRefused(channelParam, serverParam,
                                           JoinTicketError(channelParam, serverParam))
         /\ UNCHANGED <<clock, issued, usedJTIs, usedBulk, tpc, tcall, log>>
         /\ UNCHANGED <<svars, cvars>>

NextJoinTicket ==
    \/ \E channelParam \in ChannelParams, serverParam \in ServerParams :
          issueJoinTicket(channelParam, serverParam)
    \/ Tick

SpecJoinTicket == InitTicket /\ [][NextJoinTicket]_vars

-----------------------------------------------------------------------------
(* The chat service's server directory and the chat realtime hub *)

InitChat == InitTicket /\ usedBulk = 0

NextDirectory ==
    \E serverID \in LeaveServerIDs, userUID \in LeaveUserUIDs : LeaveServer(serverID, userUID)

SpecDirectory == InitChat /\ [][NextDirectory]_vars

NextHub ==
    \/ \E c \in HubClients : HubServeWS(c)
    \/ \E c \in HubClients : \E envelope \in HubInbound : HubHandleEnvelope(c, envelope)
    \/ \E c \in HubClients : HubDeliver(c)
    \/ \E c \in HubClients : HubUnregister(c)
    \/ \E c \in HubClients : HubClose(c)
    \/ \E c \in HubClients : HubWrite(c)

SpecHub == InitChat /\ [][NextHub]_vars
-----------------------------------------------------------------------------
(* Ticket authority: properties *)

\* the claims Issue signed for the jti of a well-formed string
ClaimsOf(jti) == issued[jti].claims

Successes(jti) ==
    {i \in DOMAIN log : log[i].wellformed /\ log[i].jti = jti /\ log[i].res = "ok"}

\* C1: for every jti, at most one ParseAndConsume call ever returns success,
\* whatever the interleaving of concurrent calls, compaction and the clock.
C1_AtMostOneSuccessPerJTI ==
    \A j \in DOMAIN issued : Cardinality(Successes(j)) <= 1

C3_ExpiryWindow ==
    /\ \A i \in DOMAIN issued : issued[i].claims.exp = issued[i].claims.iat + TTL
    /\ \A k \in DOMAIN log :
          log[k].wellformed =>
            /\ log[k].now >= ClaimsOf(log[k].jti).exp => log[k].res = "expired_ticket"
            /\ log[k].res = "ok" =>
                  /\ ClaimsOf(log[k].jti).iat <= log[k].now
                  /\ log[k].now < ClaimsOf(log[k].jti).exp

C3_Witness ==
    \E i, k \in DOMAIN log :
        /\ i < k /\ log[i].res = "ok" /\ log[k].wellformed /\ log[k].jti = log[i].jti
        /\ log[k].now = log[i].claims.exp
        /\ log[k].res = "expired_ticket"


-----------------------------------------------------------------------------

\* C15: a call of ParseAndConsume with a string that is an issued ticket with
\* its payload segment or its signature segment changed returns invalid_ticket,
\* so it consumes no jti.
C15_AlteredTicketInvalid ==
    \A k \in DOMAIN log : ~log[k].genuine => log[k].res = "invalid_ticket"

-----------------------------------------------------------------------------

\* the call logged at k is the first that presented a validly signed ticket
\* with its jti
FirstPresentation(k) ==
    /\ log[k].wellformed
    /\ \A j \in DOMAIN log : (j < k /\ log[j].wellformed) => log[j].jti # log[k].jti

\* C16: the first ParseAndConsume of a ticket Issue returned, made before the
\* ticket expires, succeeds and returns the claims Issue returned with it:
\* server_id, channel_id, user_uid, device_id, permissions, iat, exp and jti.
C16_RoundTrip ==
    \A i \in DOMAIN issued : \A k \in DOMAIN log :
        (/\ log[k].genuine
         /\ log[k].jti = issued[i].claims.jti
         /\ FirstPresentation(k)
         /\ log[k].now < issued[i].claims.exp)
        => (log[k].res = "ok" /\ log[k].claims = issued[i].claims)

-----------------------------------------------------------------------------

\* the id is empty once surrounding white space is removed
Blank(id) == id \in {"", " "}

\* C17: Issue fails exactly when server_id or channel_id is empty after
\* trimming; a failed call returns no ticket and no claims and leaves issued
\* tickets, consumed jtis and everything else of the authority as they were; a
\* call that does not fail returns the ticket it has issued.
C17_IssueRejectsBlankIds ==
    /\ [](lastIssue.res # "none" =>
            /\ lastIssue.res = "invalid_input"
                 <=> (Blank(lastIssue.input.ServerID) \/ Blank(lastIssue.input.ChannelID))
            /\ lastIssue.res = "invalid_input" =>
                 (lastIssue.ticket = <<>> /\ lastIssue.claims = NoClaims)
            /\ lastIssue.res = "ok" =>
                 /\ issued # <<>>
                 /\ issued[Len(issued)].ticket = lastIssue.ticket
                 /\ issued[Len(issued)].claims = lastIssue.claims)
    /\ [][(lastIssue' # lastIssue /\ lastIssue'.res = "invalid_input")
            => UNCHANGED <<clock, issued, usedJTIs, usedBulk, tpc, tcall, log>>]_vars

\* C17 witness: Issue was called with a server_id of white space and a proper
\* channel_id on an authority that tracks consumed jtis, and failed
C17_Witness ==
    /\ lastIssue.res = "invalid_input"
    /\ lastIssue.input.ServerID = " "
    /\ lastIssue.input.ChannelID = "vc_general"
    /\ usedBulk = GcThreshold - 1
    /\ issued = <<>>

-----------------------------------------------------------------------------
(* The join-ticket endpoint *)

\* the channel and the server a join-ticket request is about
RequestChannel == TrimSpace(lastIssue.input.ChannelID)
RequestServer == RequestServerID(lastIssue.input.ServerID)

\* a refused join-ticket request issues nothing, and nothing is issued but by a
\* request answered with a ticket
NoTicketUnlessOk ==
    /\ [][(lastIssue' # lastIssue /\ lastIssue'.res # "ok") => UNCHANGED issued]_vars
    /\ [][issued' # issued =>
            /\ lastIssue'.res = "ok"
            /\ issued' = Append(issued, [ticket |-> lastIssue'.ticket,
                                         claims |-> lastIssue'.claims])
            /\ lastIssue'.claims.channel_id = RequestChannel'
            /\ lastIssue'.claims.server_id = RequestServer']_vars

\* C29 (as stated): a ticket is issued only when the channel exists, is a voice
\* channel and the server exists; a channel that does not exist is answered
\* channel_not_found, an existing channel that is not a voice channel
\* invalid_channel_type, a server that does not exist server_not_found, and
\* none of these issues a ticket.
C29_JoinTicketPreChecks ==
    /\ [](lastIssue.res # "none" =>
            /\ lastIssue.res = "ok" <=>
                 (ChannelExists(RequestChannel) /\ IsVoiceChannel(RequestChannel)
                    /\ ServerExists(RequestServer))
            /\ ~ChannelExists(RequestChannel) => lastIssue.res = "channel_not_found"
            /\ (ChannelExists(RequestChannel) /\ ~IsVoiceChannel(RequestChannel))
                 => lastIssue.res = "invalid_channel_type"
            /\ (IsVoiceChannel(RequestChannel) /\ ~ServerExists(RequestServer))
                 => lastIssue.res = "server_not_found")
    /\ NoTicketUnlessOk

\* C29 (amended): as above, but a channel id that is empty after trimming is
\* answered invalid_channel, and channel_not_found is the answer for a
\* non-empty id that names no channel.
C29_JoinTicketPreChecksBlankChannel ==
    /\ [](lastIssue.res # "none" =>
            /\ lastIssue.res = "ok" <=>
                 (ChannelExists(RequestChannel) /\ IsVoiceChannel(RequestChannel)
                    /\ ServerExists(RequestServer))
            /\ RequestChannel = "" => lastIssue.res = "invalid_channel"
            /\ (RequestChannel # "" /\ ~ChannelExists(RequestChannel))
                 => lastIssue.res = "channel_not_found"
            /\ (ChannelExists(RequestChannel) /\ ~IsVoiceChannel(RequestChannel))
                 => lastIssue.res = "invalid_channel_type"
            /\ (IsVoiceChannel(RequestChannel) /\ ~ServerExists(RequestServer))
                 => lastIssue.res = "server_not_found")
    /\ NoTicketUnlessOk

\* C29 witness: after one ticket was issued, a request for a text channel of an
\* existing server was answered invalid_channel_type and issued nothing
C29_Witness ==
    /\ lastIssue.res = "invalid_channel_type"
    /\ lastIssue.input.ChannelID = "ch_general"
    /\ lastIssue.input.ServerID = "srv_harbor"
    /\ Len(issued) = 1

\* C30 (as stated): no issued ticket pairs a channel_id with a server_id that
\* does not own that channel.
C30_IssuedChannelOwnedByServer ==
    \A i \in DOMAIN issued :
        /\ issued[i].claims.channel_id \in DOMAIN channelServerByID
        /\ channelServerByID[issued[i].claims.channel_id] = issued[i].claims.server_id

-----------------------------------------------------------------------------
(* Compaction of the consumed-jti set *)

\* the tracked entries a step removes from usedJTIs
RemovedJTIs == DOMAIN usedJTIs \ DOMAIN usedJTIs'

\* caller k runs the section under usedMutex in this step
RunsLocked(k) == tpc[k] = "lock" /\ tpc'[k] = "idle"

\* C36: entries leave the consumed-jti set only in the locked section of a
\* ParseAndConsume call, only when the set holds at least 5000 entries, and
\* only if their expires_at <= the now that call has read; an entry with
\* expires_at > that now stays, and no step changes the expires_at of an entry.
C36_CompactionRemovesExpiredOnly ==
    [][/\ (RemovedJTIs # {} \/ usedBulk' < usedBulk) =>
            /\ UsedSize(usedJTIs, usedBulk) >= GcThreshold
            /\ \E k \in Callers :
                  /\ RunsLocked(k)
                  /\ \A j \in RemovedJTIs : usedJTIs[j] <= tcall[k].now
                  /\ usedBulk' < usedBulk => BulkExpiresAt <= tcall[k].now
                  /\ \A j \in DOMAIN usedJTIs : usedJTIs[j] > tcall[k].now =>
                        j \in DOMAIN usedJTIs'
       /\ \A j \in DOMAIN usedJTIs \cap DOMAIN usedJTIs' : usedJTIs'[j] = usedJTIs[j]]_vars

\* C36 witness: a consumed jti and the bulk of expired entries have been
\* compacted away, and the entry of a ticket that had not expired is kept
C36_Witness ==
    /\ \E i \in DOMAIN log : log[i].res = "ok" /\ log[i].jti \notin DOMAIN usedJTIs
    /\ \E j \in DOMAIN usedJTIs : usedJTIs[j] > clock
    /\ usedBulk = 0
    /\ Len(issued) = 2

-----------------------------------------------------------------------------
(* Failed calls of ParseAndConsume *)

\* a ParseAndConsume call returns in this step, and returns an error
ReturnsError == Len(log') = Len(log) + 1 /\ log'[Len(log')].res # "ok"

\* C38: a ParseAndConsume call that returns invalid_ticket, expired_ticket or
\* replay_ticket adds no entry to the consumed-jti set and changes none, and
\* every tracked entry of the set is the jti of a call that returned success:
\* presenting strings that are refused consumes no ticket.
C38_FailedCallConsumesNothing ==
    /\ [][ReturnsError =>
            /\ DOMAIN usedJTIs' \subseteq DOMAIN usedJTIs
            /\ \A j \in DOMAIN usedJTIs' : usedJTIs'[j] = usedJTIs[j]
            /\ usedBulk' <= usedBulk]_vars
    /\ [](\A j \in DOMAIN usedJTIs :
            \E i \in DOMAIN log : log[i].res = "ok" /\ log[i].jti = j)

\* C38 witness: a string made from a ticket (a changed payload, a signature of
\* another key, an undecodable signature or a missing segment) was refused,
\* an expired ticket too, and the ticket was accepted afterwards
C38_Witness ==
    \E i, k \in DOMAIN log :
        /\ i < k
        /\ log[i].res = "invalid_ticket" /\ log[i].jti = log[k].jti
        /\ log[k].res = "ok"
        /\ \E e \in DOMAIN log : log[e].res = "expired_ticket"
-----------------------------------------------------------------------------
(* Signaling fabric: properties *)

IsMember(c) == \E ch \in DOMAIN rooms : c \in rooms[ch]

Denied(c) == joinRes[c] \notin {"none", "ok"}

\* connection c holds the identity of a ticket that Issue signed, that is
\* marked consumed, and that had not expired when c joined
JoinedWithTicket(c) ==
    \E i \in DOMAIN issued :
        /\ issued[i].claims.jti \in DOMAIN usedJTIs
        /\ issued[i].claims.exp > participant[c].JoinedAt
        /\ participant[c].ChannelID = issued[i].claims.channel_id
        /\ participant[c].UserUID = issued[i].claims.user_uid
        /\ participant[c].DeviceID = issued[i].claims.device_id
        /\ participant[c].Permissions = issued[i].claims.permissions

\* some queue holds an rtc.participant.joined about c
JoinedAnnounced(c) ==
    \E r \in Conns : \E i \in DOMAIN send[r] :
        /\ send[r][i].type = "rtc.participant.joined"
        /\ send[r][i].payload.participant.participant_id = c

\* queue r holds an rtc.participant.joined about c
JoinedAnnouncedTo(r, c) ==
    \E i \in DOMAIN send[r] :
        /\ send[r][i].type = "rtc.participant.joined"
        /\ send[r][i].payload.participant.participant_id = c

\* C4: a connection is a member of a room only after its first frame was an
\* rtc.join whose ticket ParseAndConsume accepted; a connection whose join is
\* denied (first frame not rtc.join, ticket invalid, expired or replayed, read
\* error or deadline) is on its way to Closed, was never registered in a room,
\* and no rtc.participant.joined about it is in any queue.
C4_MemberOnlyAfterJoin ==
    \A c \in Conns :
        /\ (IsMember(c) \/ everReg[c] \/ JoinedAnnounced(c))
               => (joinRes[c] = "ok" /\ JoinedWithTicket(c))
        /\ Denied(c) =>
               /\ ~everReg[c]
               /\ ~IsMember(c)
               /\ ~JoinedAnnounced(c)
               /\ rpc[c] \in {"closeChans", "exit"}

\* C4 witness: C was denied for a replayed ticket and has closed, while B
\* joined and was announced to A
C4_Witness ==
    /\ joinRes["C"] = "replay_ticket"
    /\ rpc["C"] = "exit"
    /\ IsMember("B")
    /\ JoinedAnnounced("B")

-----------------------------------------------------------------------------

\* the participant c was when the step began is in its room (Joined)
InRoom(c) == c \in Room(participant[c].ChannelID)

\* the step dispatches an inbound envelope
Dispatches == lastIn' # lastIn

InFields == DecodeObject(lastIn'.env.payload)

\* the stream kind of the envelope dispatched is one its sender may not publish
NotPermitted ==
    LET kind == StringField(InFields, "stream_kind")
        perm == participant[lastIn'.from].Permissions
    IN  \/ kind = "video_camera" /\ ~perm.video
        \/ kind = "video_screen" /\ ~perm.screenshare
        \/ kind \in {"audio", "audio_main"} /\ ~perm.speak

DeniedMediaStep ==
    /\ Dispatches
    /\ lastIn'.env.type = "rtc.media.state"
    /\ InRoom(lastIn'.from)
    /\ NotPermitted

IsMediaDeniedError(e) ==
    /\ e.type = "rtc.error"
    /\ e.request_id = lastIn'.env.request_id
    /\ e.payload.code = "rtc_media_denied"
    /\ e.payload.retryable = FALSE

\* C5 as stated: a joined participant that sends rtc.media.state with a stream
\* kind it may not publish is enqueued rtc.error rtc_media_denied (retryable
\* false, request_id echoed), and nothing is enqueued to anybody else.
C5_DeniedMediaAnswered ==
    [][DeniedMediaStep =>
          /\ Len(send'[lastIn'.from]) = Len(send[lastIn'.from]) + 1
          /\ SubSeq(send'[lastIn'.from], 1, Len(send[lastIn'.from])) = send[lastIn'.from]
          /\ IsMediaDeniedError(send'[lastIn'.from][Len(send'[lastIn'.from])])
          /\ \A r \in Conns \ {lastIn'.from} : send'[r] = send[r]]_vars

\* C5 amended: the rtc.error is enqueued to the sender unless the sender's own
\* queue already holds 64 envelopes, in which case it is dropped; in both cases
\* nothing is enqueued to anybody else.
C5_DeniedMediaAnsweredUnlessFull ==
    [][DeniedMediaStep =>
          /\ IF Len(send[lastIn'.from]) < QueueCap
             THEN /\ Len(send'[lastIn'.from]) = Len(send[lastIn'.from]) + 1
                  /\ SubSeq(send'[lastIn'.from], 1, Len(send[lastIn'.from]))
                         = send[lastIn'.from]
                  /\ IsMediaDeniedError(send'[lastIn'.from][Len(send'[lastIn'.from])])
             ELSE send'[lastIn'.from] = send[lastIn'.from]
          /\ \A r \in Conns \ {lastIn'.from} : send'[r] = send[r]]_vars

\* C5 witness: the envelope dispatched last was B's rtc.media.state for camera
\* video, which B may not publish, and the last envelope in B's queue is the
\* rtc_media_denied answer to it
C5_Witness ==
    /\ lastIn.from = "B"
    /\ lastIn.env.type = "rtc.media.state"
    /\ StringField(DecodeObject(lastIn.env.payload), "stream_kind") = "video_camera"
    /\ ~participant["B"].Permissions.video
    /\ send["B"] # <<>>
    /\ send["B"][Len(send["B"])].type = "rtc.error"
    /\ send["B"][Len(send["B"])].payload.code = "rtc_media_denied"
    /\ send["B"][Len(send["B"])].request_id = lastIn.env.request_id

-----------------------------------------------------------------------------

\* the step dispatches an offer, answer or ICE envelope of a joined sender
\* whose target_participant_id names a member of the sender's room
TargetedSignalStep ==
    /\ Dispatches
    /\ lastIn'.env.type \in {"rtc.offer.publish", "rtc.offer.subscribe",
                             "rtc.answer.publish", "rtc.answer.subscribe",
                             "rtc.ice.candidate"}
    /\ InRoom(lastIn'.from)
    /\ "target_participant_id" \in DOMAIN InFields
    /\ InFields.target_participant_id \in Room(participant[lastIn'.from].ChannelID)

\* e is the envelope dispatched, with from_participant_id set to the sender
IsForwarded(e) ==
    /\ e.type = lastIn'.env.type
    /\ e.request_id = lastIn'.env.request_id
    /\ DOMAIN e.payload = DOMAIN InFields \cup {"from_participant_id"}
    /\ e.payload.from_participant_id = lastIn'.from
    /\ \A k \in DOMAIN InFields \ {"from_participant_id"} : e.payload[k] = InFields[k]

-----------------------------------------------------------------------------

\* C7: the participants list of a joiner's rtc.joined is the set of the members
\* that were in the room at the instant roomHub.register inserted the joiner,
\* the joiner excluded, whatever registers and unregisters run concurrently.
C7_JoinedListsRoomAtInsert ==
    \A c \in Conns :
        /\ rpc[c] = "sendJoined" => existing[c] = atInsert[c]
        /\ \A i \in DOMAIN send[c] :
              send[c][i].type = "rtc.joined" =>
                  /\ send[c][i].payload.participant_id = c
                  /\ send[c][i].payload.participants =
                        {participantSummaryFromParticipant(participant[p]) : p \in atInsert[c]}
                  /\ c \notin atInsert[c]

\* C7 witness: C's rtc.joined lists A and B, the members when C was inserted,
\* although A has left the room since
C7_Witness ==
    /\ atInsert["C"] = {"A", "B"}
    /\ ~IsMember("A")
    /\ \E i \in DOMAIN send["C"] :
          /\ send["C"][i].type = "rtc.joined"
          /\ Cardinality(send["C"][i].payload.participants) = 2

-----------------------------------------------------------------------------

IsLeftAbout(e, c) ==
    /\ e.type = "rtc.participant.left"
    /\ e.payload.participant.participant_id = c

LeftCount(r, c) == Cardinality({i \in DOMAIN send[r] : IsLeftAbout(send[r][i], c)})

\* C8: the cleanup of a connection runs at most once whatever triggers fire;
\* the unregister step removes exactly the closing member from its room; the
\* broadcast that follows enqueues one rtc.participant.left naming it to every
\* remaining member whose queue is not full; no member is ever enqueued a
\* second one.
C8_CleanupOnce ==
    /\ [](\A c \in Conns :
            /\ closeRuns[c] <= 1
            /\ \A r \in Conns : leftEnq[r][c] <= 1 /\ LeftCount(r, c) <= 1
            /\ (everReg[c] /\ rpc[c] \in {"bcastLeft", "closeChans", "exit"}) => ~IsMember(c))
    /\ [][\A c \in Conns :
            /\ (rpc[c] = "unregister" /\ rpc'[c] # "unregister") =>
                  \A ch \in DOMAIN rooms :
                      Room(ch)' = IF ch = participant[c].ChannelID
                                  THEN rooms[ch] \ {c} ELSE rooms[ch]
            /\ (rpc[c] = "bcastLeft" /\ rpc'[c] # "bcastLeft") =>
                  \A r \in Conns :
                      IF r \in Room(participant[c].ChannelID) /\ Len(send[r]) < QueueCap
                      THEN /\ Len(send'[r]) = Len(send[r]) + 1
                           /\ IsLeftAbout(send'[r][Len(send'[r])], c)
                           /\ leftEnq'[r][c] = 1
                      ELSE send'[r] = send[r]]_vars

\* C8 witness: A sent rtc.leave and its read loop ended afterwards (two
\* triggers), the cleanup ran once, B and C each hold one rtc.participant.left
\* naming A, and the room holds B and C
C8_Witness ==
    /\ lastIn.from = "A" /\ lastIn.env.type = "rtc.leave"
    /\ rpc["A"] = "exit"
    /\ closeRuns["A"] = 1
    /\ LeftCount("B", "A") = 1 /\ LeftCount("C", "A") = 1
    /\ Room("vc_general") = {"B", "C"}

-----------------------------------------------------------------------------

\* C10: no step of a read goroutine waits for a consumer: whatever the queues
\* hold, a goroutine at register, at an enqueue, at unregister or at a broadcast
\* can take its step, and a goroutine in the read loop can dispatch whatever
\* envelope arrives.
C10_NoSenderStalled ==
    \A c \in Conns :
        /\ rpc[c] \in {"register", "sendJoined", "bcastJoined", "unregister", "bcastLeft"}
              => ENABLED ReaderStep(c)
        /\ (rpc[c] = "loop" /\ frames < MaxFrames)
              => \A envelope \in LoopFrames(c) : ENABLED HandleEnvelope(c, envelope)

\* C10 witness: B's write goroutine has ended and B's queue is full; C joined
\* the room B is in and completed its register, its rtc.joined and its
\* broadcast, of which B's queue holds nothing
C10_Witness ==
    /\ wpc["B"] = "exited" /\ Len(send["B"]) = QueueCap
    /\ frames = 0
    /\ "B" \in atInsert["C"] /\ IsMember("B")
    /\ rpc["C"] = "loop"
    /\ ~JoinedAnnouncedTo("B", "C")

-----------------------------------------------------------------------------

\* the write goroutine of member c has ended on a failed write (an I/O error
\* or the 10 s write deadline): nothing has closed the connection yet
WriteFailed(c) == wpc[c] = "exited" /\ ~chClosed[c] /\ IsMember(c)

\* C9: when a write to a joined participant's socket fails, the connection is
\* closed: the participant is eventually removed from the room registry and its
\* rtc.participant.left is broadcast, even if its peer keeps sending frames.
C9_WriteFailureCloses ==
    \A c \in Conns : WriteFailed(c) ~> (~IsMember(c) /\ rpc[c] \in {"closeChans", "exit"})

-----------------------------------------------------------------------------

\* the connections the step addresses an envelope to: the target of a targeted
\* offer, answer or ICE envelope, the room of a permitted rtc.media.state, the
\* peers of an untargeted signal, the peers of a joiner's announcement, and the
\* room a closing member has left
Addressed ==
    IF TargetedSignalStep THEN {InFields.target_participant_id}
    ELSE IF Dispatches /\ InRoom(lastIn'.from) /\ lastIn'.env.type = "rtc.media.state"
            /\ ~NotPermitted
    THEN Room(participant[lastIn'.from].ChannelID)
    ELSE IF Dispatches /\ InRoom(lastIn'.from)
            /\ lastIn'.env.type \in SignalTypes
            /\ StringField(InFields, "target_participant_id") = ""
    THEN Room(participant[lastIn'.from].ChannelID) \ {lastIn'.from}
    ELSE UNION {IF rpc[c] = "bcastJoined" /\ rpc'[c] = "loop"
                THEN Room(participant[c].ChannelID) \ {c}
                ELSE IF rpc[c] = "bcastLeft" /\ rpc'[c] = "closeChans"
                THEN Room(participant[c].ChannelID)
                ELSE {} : c \in Conns}

\* C11: a queue never holds more than 64 envelopes, and an envelope addressed
\* to a connection is dropped only when that connection's own queue holds 64:
\* whatever the other queues hold, an addressee with room in its queue has the
\* envelope appended.
C11_DropOnlyWhenOwnQueueFull ==
    /\ [](\A c \in Conns : Len(send[c]) <= QueueCap)
    /\ [][\A r \in Addressed :
            IF Len(send[r]) < QueueCap
            THEN /\ Len(send'[r]) = Len(send[r]) + 1
                 /\ SubSeq(send'[r], 1, Len(send[r])) = send[r]
            ELSE send'[r] = send[r]]_vars

\* C11 witness: B's queue held 64 envelopes, which nothing drains, when C's
\* answer for A was dispatched, and the answer is the last envelope in A's queue
C11_Witness ==
    /\ lastIn.from = "C"
    /\ lastIn.env.type = "rtc.answer.publish"
    /\ DecodeObject(lastIn.env.payload).target_participant_id = "A"
    /\ "B" \in lastIn.full
    /\ wpc["B"] = "exited" /\ Len(send["B"]) = QueueCap
    /\ send["A"] # <<>>
    /\ send["A"][Len(send["A"])].type = "rtc.answer.publish"
    /\ send["A"][Len(send["A"])].payload.from_participant_id = "C"

-----------------------------------------------------------------------------

\* C12: the registry holds no room without a participant: a room exists
\* exactly while a connection that registered into it has not run unregister,
\* so it appears with its first member and goes with its last.
C12_NoEmptyRoom ==
    \A ch \in DOMAIN rooms :
        /\ rooms[ch] # {}
        /\ \A c \in rooms[ch] :
              /\ everReg[c]
              /\ participant[c].ChannelID = ch
              /\ rpc[c] \notin {"bcastLeft", "closeChans", "exit"}

\* C12 witness: A, the only member of vc_general, has left and the room is
\* gone, while C's register has created vc_party with C as its only member
C12_Witness ==
    /\ everReg["A"] /\ rpc["A"] = "exit"
    /\ "vc_general" \notin DOMAIN rooms
    /\ "vc_party" \in DOMAIN rooms /\ rooms["vc_party"] = {"C"}

-----------------------------------------------------------------------------

\* the connection has registered and no closeConnection has begun on it
Joined(c) == everReg[c] /\ ~once[c]

RoomsOf(c) == {ch \in DOMAIN rooms : c \in rooms[ch]}

\* C13: every entry of a room is keyed by the participant id of the client it
\* holds, whose channel_id is the room's; no participant id is in two rooms;
\* a joined participant is a member of exactly one room.
C13_OneRoomPerParticipant ==
    /\ \A ch \in DOMAIN rooms : \A k \in rooms[ch] :
          /\ participant[k].ParticipantID = k
          /\ participant[k].ChannelID = ch
    /\ \A c \in Conns : Cardinality(RoomsOf(c)) <= 1
    /\ \A c \in Conns : Joined(c) => RoomsOf(c) = {participant[c].ChannelID}

\* C13 witness: two rooms exist, A and B are joined in vc_general and C in
\* vc_party
C13_Witness ==
    /\ Joined("A") /\ Joined("B") /\ Joined("C")
    /\ DOMAIN rooms = {"vc_general", "vc_party"}
    /\ rooms["vc_general"] = {"A", "B"}
    /\ rooms["vc_party"] = {"C"}

-----------------------------------------------------------------------------

\* the issued and consumed tickets whose claims connection c carries
TicketsOf(c) ==
    {i \in DOMAIN issued :
        /\ issued[i].claims.jti \in DOMAIN usedJTIs
        /\ participant[c].ChannelID = issued[i].claims.channel_id
        /\ participant[c].UserUID = issued[i].claims.user_uid
        /\ participant[c].DeviceID = issued[i].claims.device_id
        /\ participant[c].Permissions = issued[i].claims.permissions}

\* the stream kind may not be published under these ticket permissions
KindNotGranted(kind, perm) ==
    \/ kind = "video_camera" /\ ~perm.video
    \/ kind = "video_screen" /\ ~perm.screenshare
    \/ kind \in {"audio", "audio_main"} /\ ~perm.speak

\* C14: the permissions, channel_id, user_uid and device_id of a connection
\* that joined are the claims of a ticket that was issued and consumed; they
\* never change afterwards; and an rtc.media.state of a member is answered
\* rtc_media_denied exactly when the ticket does not grant its stream kind.
C14_IdentityFromTicket ==
    /\ [](\A c \in Conns : joinRes[c] = "ok" => TicketsOf(c) # {})
    /\ [][\A c \in Conns :
            /\ joinRes[c] = "ok" => participant'[c] = participant[c]
            /\ (/\ Dispatches /\ lastIn'.from = c /\ InRoom(c)
                /\ lastIn'.env.type = "rtc.media.state"
                /\ Len(send[c]) < QueueCap)
               => \A i \in TicketsOf(c) :
                     KindNotGranted(StringField(InFields, "stream_kind"),
                                    issued[i].claims.permissions)
                       <=> send'[c][Len(send'[c])].type = "rtc.error"]_vars

\* C14 witness: B joined with the ticket that grants speaking only, sent
\* rtc.media.state for camera video afterwards and was answered rtc.error,
\* still carrying the claims of that ticket
C14_Witness ==
    /\ joinRes["B"] = "ok" /\ rpc["B"] = "loop"
    /\ TicketsOf("B") = {2}
    /\ participant["B"].Permissions = PermSpeakOnly
    /\ lastIn.from = "B" /\ lastIn.env.type = "rtc.media.state"
    /\ send["B"] # <<>>
    /\ send["B"][Len(send["B"])].type = "rtc.error"

-----------------------------------------------------------------------------

\* the step appends to queue r an envelope of this type about participant c
AppendsAbout(r, eventType, c) ==
    /\ Len(send'[r]) = Len(send[r]) + 1
    /\ send'[r][Len(send'[r])].type = eventType
    /\ IF eventType = "rtc.joined"
       THEN send'[r][Len(send'[r])].payload.participant_id = c
       ELSE send'[r][Len(send'[r])].payload.participant.participant_id = c

-----------------------------------------------------------------------------

\* C19: an rtc.participant.left naming P is enqueued only when P is no longer
\* in the registry: whenever one has been enqueued to anybody, or is in a
\* queue, P is a member of no room.
C19_LeftOnlyAfterUnregister ==
    \A c \in Conns : \A r \in Conns :
        (leftEnq[r][c] > 0 \/ LeftCount(r, c) > 0) =>
            /\ ~IsMember(c)
            /\ everReg[c]
            /\ rpc[c] \in {"closeChans", "loop", "exit"}

\* C19 witness: A has run unregister and its broadcast, C holds the
\* rtc.participant.left naming A and is still a member, and A's channels are
\* not closed yet
C19_Witness ==
    /\ rpc["A"] = "closeChans" /\ ~chClosed["A"]
    /\ leftEnq["C"]["A"] = 1 /\ LeftCount("C", "A") = 1
    /\ ~IsMember("A") /\ IsMember("C")

-----------------------------------------------------------------------------

\* the step dispatches an rtc.media.state of a joined sender for a stream kind
\* the sender may publish
PermittedMediaStep ==
    /\ Dispatches
    /\ lastIn'.env.type = "rtc.media.state"
    /\ InRoom(lastIn'.from)
    /\ ~NotPermitted

\* e is the envelope dispatched, with participant_id and user_uid set to the
\* sender's
IsRelayed(e) ==
    /\ e.type = "rtc.media.state"
    /\ e.request_id = lastIn'.env.request_id
    /\ DOMAIN e.payload = DOMAIN InFields \cup {"participant_id", "user_uid"}
    /\ e.payload.participant_id = lastIn'.from
    /\ e.payload.user_uid = participant[lastIn'.from].UserUID
    /\ \A k \in DOMAIN InFields \ {"participant_id", "user_uid"} : e.payload[k] = InFields[k]

\* C20 as stated: a permitted rtc.media.state is enqueued to every current
\* member of the sender's room, the sender included, and to nobody else; each
\* copy carries the sender's participant_id and user_uid whatever the client
\* supplied, and the type and request_id of the inbound envelope.
C20_MediaStateBroadcast ==
    [][PermittedMediaStep =>
          \A r \in Conns :
              IF r \in Room(participant[lastIn'.from].ChannelID)
              THEN /\ Len(send'[r]) = Len(send[r]) + 1
                   /\ SubSeq(send'[r], 1, Len(send[r])) = send[r]
                   /\ IsRelayed(send'[r][Len(send'[r])])
              ELSE send'[r] = send[r]]_vars

\* C20 amended: the copy for a member whose queue already holds 64 envelopes is
\* dropped; every other member of the room, the sender included, is enqueued
\* its copy.
C20_MediaStateBroadcastUnlessFull ==
    [][PermittedMediaStep =>
          \A r \in Conns :
              IF r \in Room(participant[lastIn'.from].ChannelID) /\ Len(send[r]) < QueueCap
              THEN /\ Len(send'[r]) = Len(send[r]) + 1
                   /\ SubSeq(send'[r], 1, Len(send[r])) = send[r]
                   /\ IsRelayed(send'[r][Len(send'[r])])
              ELSE send'[r] = send[r]]_vars

\* C20 witness: A's rtc.media.state for camera video, sent with a forged
\* participant_id and user_uid, is the last envelope in the queues of A and C,
\* where it names A and A's user
C20_Witness ==
    /\ lastIn.from = "A"
    /\ lastIn.env.type = "rtc.media.state"
    /\ DecodeObject(lastIn.env.payload).participant_id # "A"
    /\ DecodeObject(lastIn.env.payload).user_uid # participant["A"].UserUID
    /\ \A r \in {"A", "C"} :
          /\ send[r] # <<>>
          /\ send[r][Len(send[r])].type = "rtc.media.state"
          /\ send[r][Len(send[r])].request_id = lastIn.env.request_id
          /\ send[r][Len(send[r])].payload.participant_id = "A"
          /\ send[r][Len(send[r])].payload.user_uid = participant["A"].UserUID

-----------------------------------------------------------------------------

\* the step dispatches an offer, answer or ICE envelope of a joined sender
\* whose target_participant_id is absent, empty or blank
UntargetedSignalStep ==
    /\ Dispatches
    /\ lastIn'.env.type \in SignalTypes
    /\ InRoom(lastIn'.from)
    /\ StringField(InFields, "target_participant_id") = ""

\* C21 as stated: an untargeted offer/answer/ICE envelope is enqueued to every
\* current member of the sender's room except the sender, and to nobody else,
\* with from_participant_id set to the sender's id.
C21_UntargetedSignalBroadcast ==
    [][UntargetedSignalStep =>
          \A r \in Conns :
              IF r \in Room(participant[lastIn'.from].ChannelID) \ {lastIn'.from}
              THEN /\ Len(send'[r]) = Len(send[r]) + 1
                   /\ SubSeq(send'[r], 1, Len(send[r])) = send[r]
                   /\ IsForwarded(send'[r][Len(send'[r])])
              ELSE send'[r] = send[r]]_vars

\* C21 amended: the copy for a member whose queue already holds 64 envelopes is
\* dropped; every other member of the room except the sender is enqueued its
\* copy, and nobody else is enqueued anything.
C21_UntargetedSignalBroadcastUnlessFull ==
    [][UntargetedSignalStep =>
          \A r \in Conns :
              IF /\ r \in Room(participant[lastIn'.from].ChannelID) \ {lastIn'.from}
                 /\ Len(send[r]) < QueueCap
              THEN /\ Len(send'[r]) = Len(send[r]) + 1
                   /\ SubSeq(send'[r], 1, Len(send[r])) = send[r]
                   /\ IsForwarded(send'[r][Len(send'[r])])
              ELSE send'[r] = send[r]]_vars

\* C21 witness: A's answer without a target is the last envelope in the queues
\* of its room mates B and C, naming A as its origin, and is not in A's queue
C21_Witness ==
    /\ lastIn.from = "A"
    /\ lastIn.env.type = "rtc.answer.subscribe"
    /\ Room("vc_general") = {"A", "B", "C"}
    /\ \A r \in {"B", "C"} :
          /\ send[r] # <<>>
          /\ send[r][Len(send[r])].type = "rtc.answer.subscribe"
          /\ send[r][Len(send[r])].payload.from_participant_id = "A"
    /\ \A i \in DOMAIN send["A"] : send["A"][i].type # "rtc.answer.subscribe"

-----------------------------------------------------------------------------

\* the step dispatches an offer, answer or ICE envelope of a joined sender
\* whose target_participant_id is not empty and names no member of the
\* sender's room
TargetNotFoundStep ==
    /\ Dispatches
    /\ lastIn'.env.type \in SignalTypes
    /\ InRoom(lastIn'.from)
    /\ StringField(InFields, "target_participant_id") # ""
    /\ StringField(InFields, "target_participant_id")
           \notin Room(participant[lastIn'.from].ChannelID)

IsTargetNotFoundError(e) ==
    /\ e.type = "rtc.error"
    /\ e.request_id = lastIn'.env.request_id
    /\ e.payload.code = "rtc_target_not_found"
    /\ e.payload.retryable = TRUE

\* C22 as stated: a targeted offer/answer/ICE envelope whose target is no
\* current member of the sender's room is answered rtc.error
\* rtc_target_not_found (retryable, request_id echoed) in the sender's queue,
\* and nobody else is enqueued anything.
C22_TargetNotFoundAnswered ==
    [][TargetNotFoundStep =>
          /\ Len(send'[lastIn'.from]) = Len(send[lastIn'.from]) + 1
          /\ SubSeq(send'[lastIn'.from], 1, Len(send[lastIn'.from])) = send[lastIn'.from]
          /\ IsTargetNotFoundError(send'[lastIn'.from][Len(send'[lastIn'.from])])
          /\ \A r \in Conns \ {lastIn'.from} : send'[r] = send[r]]_vars

\* C22 amended: the rtc.error is enqueued to the sender unless the sender's own
\* queue already holds 64 envelopes, in which case it is dropped; in both cases
\* nobody else is enqueued anything.
C22_TargetNotFoundAnsweredUnlessFull ==
    [][TargetNotFoundStep =>
          /\ IF Len(send[lastIn'.from]) < QueueCap
             THEN /\ Len(send'[lastIn'.from]) = Len(send[lastIn'.from]) + 1
                  /\ SubSeq(send'[lastIn'.from], 1, Len(send[lastIn'.from]))
                         = send[lastIn'.from]
                  /\ IsTargetNotFoundError(send'[lastIn'.from][Len(send'[lastIn'.from])])
             ELSE send'[lastIn'.from] = send[lastIn'.from]
          /\ \A r \in Conns \ {lastIn'.from} : send'[r] = send[r]]_vars

\* C22 witness: C, a member of vc_party, sent an answer for A, a member of
\* vc_general, and the last envelope in C's queue is the rtc_target_not_found
\* answer to it
C22_Witness ==
    /\ lastIn.from = "C"
    /\ lastIn.env.type = "rtc.answer.publish"
    /\ participant["C"].ChannelID = "vc_party" /\ IsMember("C")
    /\ "A" \in Room("vc_general")
    /\ send["C"] # <<>>
    /\ send["C"][Len(send["C"])].type = "rtc.error"
    /\ send["C"][Len(send["C"])].payload.code = "rtc_target_not_found"
    /\ send["C"][Len(send["C"])].payload.retryable = TRUE
    /\ send["C"][Len(send["C"])].request_id = lastIn.env.request_id

-----------------------------------------------------------------------------

\* the step dispatches an envelope of a joined sender that handleEnvelope
\* answers with rtc_unknown_event, rtc_media_denied or rtc_target_not_found
PostJoinErrorStep ==
    /\ Dispatches
    /\ Joined(lastIn'.from) /\ InRoom(lastIn'.from)
    /\ \/ lastIn'.env.type \notin {"rtc.ping", "rtc.leave", "rtc.media.state"} \cup SignalTypes
       \/ DeniedMediaStep
       \/ TargetNotFoundStep

\* C23: the handling of an envelope answered with rtc_unknown_event,
\* rtc_media_denied or rtc_target_not_found leaves the registry, the sender's
\* identity and both of its goroutines as they were: the sender is still a
\* joined member, its read goroutine is back in the read loop, no cleanup has
\* begun and its channels are open.
C23_PostJoinErrorsNonFatal ==
    [][PostJoinErrorStep =>
          /\ rooms' = rooms
          /\ participant' = participant
          /\ rpc'[lastIn'.from] = "loop"
          /\ ~once'[lastIn'.from]
          /\ ~chClosed'[lastIn'.from]
          /\ closeRuns' = closeRuns
          /\ wpc' = wpc]_vars

\* C23 witness: A sent a second rtc.join and was answered rtc_unknown_event;
\* A is still a joined member in its read loop, and the announcement of C, who
\* joined afterwards, follows the error in A's queue
C23_Witness ==
    /\ lastIn.from = "A" /\ lastIn.env.type = "rtc.join"
    /\ Joined("A") /\ IsMember("A") /\ rpc["A"] = "loop" /\ wpc["A"] = "run"
    /\ \E i, j \in DOMAIN send["A"] :
          /\ i < j
          /\ send["A"][i].type = "rtc.error"
          /\ send["A"][i].payload.code = "rtc_unknown_event"
          /\ send["A"][j].type = "rtc.participant.joined"
          /\ send["A"][j].payload.participant.participant_id = "C"

-----------------------------------------------------------------------------

\* the state of a connection: Closed once closeConnection has begun, Joined
\* while it is in the registry, Upgraded before
ConnState(c) ==
    IF once[c] THEN "Closed" ELSE IF IsMember(c) THEN "Joined" ELSE "Upgraded"

\* C24: a connection only moves Upgraded -> Joined -> Closed or
\* Upgraded -> Closed: a closed connection stays closed and is never put into
\* the registry again, and a joined connection never returns to Upgraded.
C24_StateMachineForward ==
    [][\A c \in Conns :
         /\ <<ConnState(c), ConnState(c)'>> \in
               {<<"Upgraded", "Upgraded">>, <<"Upgraded", "Joined">>, <<"Upgraded", "Closed">>,
                <<"Joined", "Joined">>, <<"Joined", "Closed">>, <<"Closed", "Closed">>}
         /\ (once[c] /\ ~IsMember(c)) => ~IsMember(c)']_vars

\* C24 witness: C was denied and went from Upgraded to Closed without ever
\* being registered, A went from Joined to Closed and is out of the registry,
\* and B is joined
C24_Witness ==
    /\ ConnState("C") = "Closed" /\ ~everReg["C"] /\ rpc["C"] = "exit"
    /\ ConnState("A") = "Closed" /\ everReg["A"] /\ ~IsMember("A") /\ chClosed["A"]
    /\ ConnState("B") = "Joined"

-----------------------------------------------------------------------------

\* closeConnection has begun on a connection that is in the registry: it sent
\* rtc.leave, or its read loop ended
Leaving(c) == once[c] /\ IsMember(c)

\* the participant is out of the registry, its channels and socket are closed
\* and its read goroutine is past the cleanup
Left(c) == ~IsMember(c) /\ chClosed[c] /\ rpc[c] \in {"loop", "exit"}

\* C25 as stated: when a joined participant sends rtc.leave or its read side
\* ends, it is eventually out of its room with its connection closed, and the
\* broadcast of its cleanup enqueues rtc.participant.left naming it to every
\* remaining member.
C25_LeaveCleansUp ==
    /\ \A c \in Conns : Leaving(c) ~> Left(c)
    /\ [][\A c \in Conns :
            (rpc[c] = "bcastLeft" /\ rpc'[c] # "bcastLeft") =>
                \A r \in Room(participant[c].ChannelID) :
                    /\ Len(send'[r]) = Len(send[r]) + 1
                    /\ IsLeftAbout(send'[r][Len(send'[r])], c)]_vars

\* C25 amended: the rtc.participant.left is enqueued to every remaining
\* member whose queue holds fewer than 64 envelopes and is dropped for the
\* others.
C25_LeaveCleansUpUnlessFull ==
    /\ \A c \in Conns : Leaving(c) ~> Left(c)
    /\ [][\A c \in Conns :
            (rpc[c] = "bcastLeft" /\ rpc'[c] # "bcastLeft") =>
                \A r \in Room(participant[c].ChannelID) :
                    IF Len(send[r]) < QueueCap
                    THEN /\ Len(send'[r]) = Len(send[r]) + 1
                         /\ IsLeftAbout(send'[r][Len(send'[r])], c)
                    ELSE send'[r] = send[r]]_vars

\* C25 witness: A sent rtc.leave; it is out of the room, its connection is
\* closed, and B, who remains, was enqueued the rtc.participant.left naming A
C25_Witness ==
    /\ lastIn.from = "A" /\ lastIn.env.type = "rtc.leave"
    /\ Left("A")
    /\ IsMember("B")
    /\ leftEnq["B"]["A"] = 1

-----------------------------------------------------------------------------

\* queue c holds an rtc.error with code rtc_join_denied that was not written
JoinDeniedUnsent(c) ==
    \E i \in DOMAIN send[c] :
        /\ send[c][i].type = "rtc.error"
        /\ send[c][i].payload.code = "rtc_join_denied"

\* C26: when a join is denied because the first frame is not rtc.join or the
\* ticket is rejected, the rtc.error rtc_join_denied has been written to the
\* peer by the time the socket is closed: no closed connection still holds it
\* in its queue.
C26_JoinDenialSentBeforeClose ==
    \A c \in Conns :
        (Denied(c) /\ joinRes[c] # "read_error" /\ chClosed[c]) => ~JoinDeniedUnsent(c)

-----------------------------------------------------------------------------

\* queue q2 is q1 with envelopes added behind
ExtendedBehind(q1, q2) == Len(q2) >= Len(q1) /\ SubSeq(q2, 1, Len(q1)) = q1

\* C27: a queue is changed only by envelopes being added behind what it holds
\* and by its first envelope being taken to be written, so what a receiver is
\* delivered of one sender arrives in the order the sender enqueued it; drops
\* remove envelopes and reorder none.
C27_QueueOrderPreserved ==
    [][\A r \in Conns :
         \/ ExtendedBehind(send[r], send'[r])
         \/ send[r] # <<>> /\ send'[r] = Tail(send[r])]_vars

\* C27 witness: A's queue holds the announcement of C's join and, behind it,
\* the answer C sent to A afterwards
C27_Witness ==
    /\ lastIn.from = "C" /\ lastIn.env.type = "rtc.answer.publish"
    /\ \E i, j \in DOMAIN send["A"] :
          /\ i < j
          /\ send["A"][i].type = "rtc.participant.joined"
          /\ send["A"][i].payload.participant.participant_id = "C"
          /\ send["A"][j].type = "rtc.answer.publish"
          /\ send["A"][j].payload.from_participant_id = "C"

-----------------------------------------------------------------------------

\* the stream kind of the envelope dispatched, without surrounding blanks; ""
\* when the payload is no object or has no stream_kind
KindSent ==
    LET raw == IF lastIn'.env.payload.object /\ "stream_kind" \in DOMAIN lastIn'.env.payload.fields
               THEN lastIn'.env.payload.fields.stream_kind ELSE ""
    IN  IF raw = " video_camera " THEN "video_camera" ELSE raw

\* the rule of the permission model for a stream kind
KindAllowed(kind, perm) ==
    CASE kind = "" -> TRUE
      [] kind = "video_camera" -> perm.video
      [] kind = "video_screen" -> perm.screenshare
      [] kind \in {"audio", "audio_main"} -> perm.speak
      [] OTHER -> TRUE

\* C28: an rtc.media.state of a joined participant is relayed to its room when
\* its trimmed stream_kind is empty, is video_camera with permissions.video, is
\* video_screen with permissions.screenshare, begins with audio with
\* permissions.speak, or is anything else; it is answered rtc_media_denied, and
\* relayed to nobody, in the remaining cases.
C28_MediaPermissionRule ==
    [][(Dispatches /\ lastIn'.env.type = "rtc.media.state" /\ InRoom(lastIn'.from)) =>
          LET c == lastIn'.from IN
          IF KindAllowed(KindSent, participant[c].Permissions)
          THEN \A r \in Room(participant[c].ChannelID) :
                  /\ Len(send'[r]) = Len(send[r]) + 1
                  /\ send'[r][Len(send'[r])].type = "rtc.media.state"
          ELSE /\ Len(send'[c]) = Len(send[c]) + 1
               /\ send'[c][Len(send'[c])].type = "rtc.error"
               /\ send'[c][Len(send'[c])].payload.code = "rtc_media_denied"
               /\ \A r \in Conns \ {c} : send'[r] = send[r]]_vars

\* C28 witness: A, who may publish video and screen but may not speak, sent
\* rtc.media.state for audio_main and was answered rtc_media_denied, and B was
\* enqueued nothing
C28_Witness ==
    /\ participant["A"].Permissions = Permissions(FALSE, TRUE, TRUE)
    /\ lastIn.from = "A" /\ lastIn.seq = 1
    /\ StringField(DecodeObject(lastIn.env.payload), "stream_kind") = "audio_main"
    /\ Len(send["A"]) = 1
    /\ send["A"][1].type = "rtc.error"
    /\ send["A"][1].payload.code = "rtc_media_denied"
    /\ send["B"] = <<>>

\* C32 (as stated): no envelope is ever sent on a connection's outbound queue
\* after the cleanup has closed it.
C32_NoSendOnClosedQueue == \A c \in Conns : ~panicked[c]

\* the presence view a client holds after the envelopes of q, taken in order:
\* rtc.joined gives the list, rtc.participant.joined adds and
\* rtc.participant.left removes one peer
RECURSIVE ViewAfter(_, _)
ViewAfter(q, n) ==
    IF n = 0 THEN {}
    ELSE LET e == q[n] IN
         CASE e.type = "rtc.joined" ->
                {s.participant_id : s \in e.payload.participants}
           [] e.type = "rtc.participant.joined" ->
                ViewAfter(q, n - 1) \cup {e.payload.participant.participant_id}
           [] e.type = "rtc.participant.left" ->
                ViewAfter(q, n - 1) \ {e.payload.participant.participant_id}
           [] OTHER -> ViewAfter(q, n - 1)

\* envelope n of q introduces a peer the view already holds
IntroducedTwice(q, n) ==
    /\ q[n].type = "rtc.participant.joined"
    /\ q[n].payload.participant.participant_id \in ViewAfter(q, n - 1)

\* no read goroutine is between register and the end of waitForJoin, or inside
\* closeConnection
NoJoinOrLeaveInProgress == \A c \in Conns : rpc[c] \in {"waitJoin", "loop", "exit"}

\* C33 (as stated): once no join or leave is in progress, the view each member
\* M gets from the envelopes enqueued to it is the room's membership without
\* M, and no envelope has introduced a peer that M's view already held.
C33_PresenceViewsConverge ==
    NoJoinOrLeaveInProgress =>
        \A M \in Conns : IsMember(M) =>
            /\ ViewAfter(send[M], Len(send[M])) = Room(participant[M].ChannelID) \ {M}
            /\ \A n \in DOMAIN send[M] : ~IntroducedTwice(send[M], n)

\* the connection whose rtc.joined was enqueued and written before the first
\* state (InitSignal)
JoinedAtStart == {"A"}

\* C34 (as stated): the first envelope ever enqueued to a participant that
\* joins is its own rtc.joined.
C34_JoinedIsFirstEnvelope ==
    \A c \in Conns \ JoinedAtStart :
        (everReg[c] /\ send[c] # <<>>) =>
            /\ send[c][1].type = "rtc.joined"
            /\ send[c][1].payload.participant_id = c

\* connection c takes the step: its read goroutine moves, or dispatches an
\* inbound envelope
Acts(c) == rpc'[c] # rpc[c] \/ (lastIn' # lastIn /\ lastIn'.from = c)

\* C35: whatever a step of a connection c enqueues, it enqueues to c itself or
\* to members of the room of c's own channel (the channel of its ticket), under
\* that channel's id; the queue of a connection in another room, or in none,
\* gets nothing from it, whatever channel_id and target_participant_id the
\* client wrote into the envelope.
C35_CrossRoomIsolation ==
    [][\A c \in Conns : Acts(c) =>
          \A r \in Conns : send'[r] # send[r] =>
              /\ Len(send'[r]) = Len(send[r]) + 1
              /\ send'[r][Len(send'[r])].channel_id = participant'[c].ChannelID
              /\ r # c =>
                   /\ r \in Room(participant[c].ChannelID)
                   /\ participant[r].ChannelID = participant[c].ChannelID]_vars

\* C35 witness: C is alone in the room of vc_party and B is with A in
\* vc_general; A's media state, sent under a channel id of the client's own,
\* went to B, and C's queue holds no envelope of another channel
C35_Witness ==
    /\ rooms = [ch \in {"vc_general", "vc_party"} |->
                   IF ch = "vc_party" THEN {"C"} ELSE {"A", "B"}]
    /\ lastIn.from = "A" /\ lastIn.env.type = "rtc.media.state"
    /\ lastIn.env.channel_id = "vc_spoofed"
    /\ \E i \in DOMAIN send["B"] : send["B"][i].type = "rtc.media.state"
    /\ \A i \in DOMAIN send["C"] : send["C"][i].channel_id = "vc_party"

\* a connection dispatches rtc.join in its read loop, that is, after it has
\* joined
JoinAgainStep == lastIn' # lastIn /\ lastIn'.env.type = "rtc.join"

\* what a second rtc.join leaves alone: the authority's consumed jtis, the
\* registry and every connection's participant; and the connection never
\* waits for a join again, consumes a ticket only as its first frame and is
\* inserted into a room only if it never was
OneJoinPerConnection ==
    /\ [][JoinAgainStep => UNCHANGED <<usedJTIs, usedBulk, rooms, participant, everReg>>]_vars
    /\ [][\A c \in Conns : rpc'[c] = "waitJoin" => rpc[c] = "waitJoin"]_vars
    /\ [][usedJTIs' # usedJTIs =>
            \E c \in Conns : rpc[c] = "waitJoin" /\ rpc'[c] = "register"]_vars
    /\ [][\A c \in Conns : (IsMember(c)' /\ ~IsMember(c)) =>
            (rpc[c] = "register" /\ ~everReg[c])]_vars

\* the rtc.error a second rtc.join is answered with
IsUnknownEventError(e, requestID) ==
    /\ e.type = "rtc.error"
    /\ e.request_id = requestID
    /\ e.payload.code = "rtc_unknown_event"
    /\ e.payload.retryable = FALSE

\* C37 (as stated): an rtc.join sent by a joined participant is answered with
\* rtc_unknown_event, consumes no ticket, registers nothing and leaves the
\* participant's id, room and permissions as they were.
C37_SecondJoinIgnored ==
    /\ OneJoinPerConnection
    /\ [][(JoinAgainStep /\ InRoom(lastIn'.from)) =>
            /\ Len(send'[lastIn'.from]) = Len(send[lastIn'.from]) + 1
            /\ SubSeq(send'[lastIn'.from], 1, Len(send[lastIn'.from])) = send[lastIn'.from]
            /\ IsUnknownEventError(send'[lastIn'.from][Len(send'[lastIn'.from])],
                                   lastIn'.env.request_id)
            /\ \A r \in Conns \ {lastIn'.from} : send'[r] = send[r]]_vars

\* C37 (amended): as above, but the rtc_unknown_event answer is dropped when
\* the sender's queue already holds 64 envelopes.
C37_SecondJoinIgnoredUnlessFull ==
    /\ OneJoinPerConnection
    /\ [][(JoinAgainStep /\ InRoom(lastIn'.from)) =>
            /\ IF Len(send[lastIn'.from]) < QueueCap
               THEN /\ Len(send'[lastIn'.from]) = Len(send[lastIn'.from]) + 1
                    /\ SubSeq(send'[lastIn'.from], 1, Len(send[lastIn'.from]))
                           = send[lastIn'.from]
                    /\ IsUnknownEventError(send'[lastIn'.from][Len(send'[lastIn'.from])],
                                           lastIn'.env.request_id)
               ELSE send'[lastIn'.from] = send[lastIn'.from]
            /\ \A r \in Conns \ {lastIn'.from} : send'[r] = send[r]]_vars

\* C37 witness: A, a member with its ticket consumed, has sent rtc.join with
\* a valid ticket nobody has presented; the ticket is not consumed, A is the
\* participant it was and holds the rtc_unknown_event error
C37_Witness ==
    /\ lastIn.from = "A" /\ lastIn.env.type = "rtc.join"
    /\ TrimTicket(lastIn.env.payload.fields.ticket) = SignalIssued[4].ticket
    /\ SignalClaims[4].jti \notin DOMAIN usedJTIs
    /\ participant["A"] = NewParticipant("A", SignalClaims[1]) /\ IsMember("A")
    /\ send["A"] # <<>> /\ IsUnknownEventError(send["A"][Len(send["A"])], "r-again")

-----------------------------------------------------------------------------
(* The write goroutine after closeConnection *)

\* C39: once closeConnection has closed c.closed, c.send and the socket of a
\* connection, its writePump returns: from the select, where it waits for an
\* envelope or the ticker, and from a write that is in progress.
C39_WriterTerminates ==
    \A c \in Conns : chClosed[c] ~> (wpc[c] = "exited")

\* C39 witness: closeConnection of A, whose socket never fails a write, has
\* run to its end, and A's write goroutine has returned with envelopes left in
\* the queue
C39_Witness ==
    /\ "A" \notin BadSocket
    /\ chClosed["A"] /\ rpc["A"] = "exit" /\ wpc["A"] = "exited"
    /\ send["A"] # <<>>
-----------------------------------------------------------------------------
(* Properties of the server directory *)

\* the elements of a sequence
Range(q) == {q[i] : i \in DOMAIN q}

\* the latest LeaveServer call, once one was made
LastLeave == leaves[Len(leaves)]

\* C31: after LeaveServer(s, u) has succeeded the directory listed for u never
\* holds s again, the call has taken s out of u's listing and left the listing
\* of every other user as it was; LeaveServer with an unknown server or a
\* blank user fails, and a failed call leaves the directory of every user as
\* it was.
C31_LeaveServerFrame ==
    /\ [](\A i \in DOMAIN leaves :
            /\ leaves[i].err = "none" =>
                 TrimSpace(leaves[i].serverID) \notin Range(ListServersForUser(leaves[i].userUID))
            /\ (TrimSpace(leaves[i].serverID) \notin Range(servers)
                  \/ TrimSpace(leaves[i].userUID) = "") => leaves[i].err # "none")
    /\ [][Len(leaves') > Len(leaves) =>
            IF LastLeave'.err = "none"
            THEN \A u \in LeaveUserUIDs \cup {"uid_c"} :
                   IF TrimSpace(u) = TrimSpace(LastLeave'.userUID)
                   THEN ListServersForUser(u)' =
                          SelectSeq(ListServersForUser(u),
                                    LAMBDA server : server # TrimSpace(LastLeave'.serverID))
                   ELSE ListServersForUser(u)' = ListServersForUser(u)
            ELSE UNCHANGED leftServersByUser]_vars

\* C31 witness: uid_a has left srv_harbor, then a call for an unknown server
\* has failed; uid_a is listed srv_testlab alone and uid_b both servers
C31_Witness ==
    /\ Len(leaves) = 2
    /\ leaves[1] = [serverID |-> "srv_harbor", userUID |-> " uid_a ", err |-> "none"]
    /\ leaves[2].serverID = "srv_nowhere" /\ leaves[2].err # "none"
    /\ ListServersForUser("uid_a") = <<"srv_testlab">>
    /\ ListServersForUser("uid_b") = servers

-----------------------------------------------------------------------------
(* Properties of the chat realtime hub *)

\* the channels that have a room or a subscriber
HubChannels == DOMAIN subscribersByRoom \cup UNION {subscriptions[c] : c \in HubClients}

\* C40: a client is in subscribersByRoom[ch] exactly when ch is in its
\* subscriptions, every client with a subscription is in clientsByID, a client
\* whose close has unregistered it is in no room, and no room of the map is
\* empty.
C40_HubMapsConsistent ==
    /\ \A c \in HubClients : \A ch \in HubChannels :
          c \in HubRoom(ch) <=> ch \in subscriptions[c]
    /\ \A c \in HubClients : subscriptions[c] # {} => c \in clientsByID
    /\ \A c \in HubClients : hpc[c] \in {"closing", "closed"} =>
          \A ch \in DOMAIN subscribersByRoom : c \notin subscribersByRoom[ch]
    /\ \A ch \in DOMAIN subscribersByRoom : subscribersByRoom[ch] # {}

\* C40 witness: h1 and h2 had subscribed to ch_general, h1 has closed, and h2,
\* told so, is the one subscriber left
C40_Witness ==
    /\ hpc["h1"] = "closed"
    /\ subscribersByRoom = [ch \in {"ch_general"} |-> {"h2"}]
    /\ subscriptions["h2"] = {"ch_general"}
    /\ clientsByID = {"h2"}
    /\ \E i \in DOMAIN hsend["h2"] :
          hsend["h2"][i] = HubOut("chat.presence.left", "ch_general", "h1")

====
